---- MODULE Spec2Model ----
(***************************************************************************)
(* Model of the anonymisation metrics engine                               *)
(* (privacy_validator/anonymisation_validator.py) and of the column        *)
(* validation of its command-line entry point                              *)
(* (privacy_validator/anonymisation_validator_cli.py).                     *)
(*                                                                         *)
(* A dataset is a sequence of rows over the columns q1, q2 (candidate      *)
(* quasi-identifiers; q2 is of object dtype) and s (the sensitive          *)
(* attribute).  The dtype of q1 and of s is object, i.e. categorical, or   *)
(* float64, i.e. numeric.                                                  *)
(* The missing value (NaN) is the number 0.                                *)
(* Real-valued results are kept exact: a number is the fraction n/d, and   *)
(* an entropy is kept as the count profile of the class it belongs to.     *)
(***************************************************************************)
EXTENDS Integers, Sequences, FiniteSets, TLC

VARIABLES df, s_dtype, q_dtype, aux, result, log_txt, out_file, threads

vars == <<df, s_dtype, q_dtype, aux, result, log_txt, out_file, threads>>

----------------------------------------------------------------------------
(* Bounds and input domains *)

MaxRows == 3

MaxAux == 1

NaN == 0

QIVals == {NaN, 1}

SensVals == {NaN, 1, 2}

Columns == {"q1", "q2", "s"}

Rows == [q1 : QIVals, q2 : QIVals, s : SensVals]

DataSets == UNION {[1..n -> Rows] : n \in 0..MaxRows}

----------------------------------------------------------------------------
(* Numbers: an optional exact fraction.  None is Python's None. *)

Some(n, d) == [given |-> TRUE, n |-> n, d |-> d]

None == [given |-> FALSE, n |-> 0, d |-> 1]

Lt(a, b) == a.n * b.d < b.n * a.d

Gt(a, b) == Lt(b, a)

Eq(a, b) == a.n * b.d = b.n * a.d

RECURSIVE Gcd(_, _)
Gcd(a, b) == IF b = 0 THEN a ELSE Gcd(b, a % b)

Reduce(a) == LET g == Gcd(a.n, a.d) IN IF g = 0 THEN a ELSE Some(a.n \div g, a.d \div g)

Add(a, b) == Reduce(Some(a.n * b.d + b.n * a.d, a.d * b.d))

Abs(x) == IF x < 0 THEN -x ELSE x

RECURSIVE Pow(_, _)
Pow(b, e) == IF e = 0 THEN 1 ELSE b * Pow(b, e - 1)

MinSet(S) == CHOOSE x \in S : \A y \in S : x <= y

MaxSet(S) == CHOOSE x \in S : \A y \in S : x >= y

RECURSIVE SumFn(_, _)
SumFn(f, D) == IF D = {} THEN 0
               ELSE LET x == CHOOSE y \in D : TRUE IN f[x] + SumFn(f, D \ {x})

RECURSIVE ProdFn(_, _)
ProdFn(f, D) == IF D = {} THEN 1
                ELSE LET x == CHOOSE y \in D : TRUE IN f[x] * ProdFn(f, D \ {x})

----------------------------------------------------------------------------
(* Outcomes of a call *)

Returned(op, v) == [op |-> op, status |-> "ok", exc |-> "", value |-> v]

Raised(op, e) == [op |-> op, status |-> "raised", exc |-> e, value |-> <<>>]

----------------------------------------------------------------------------
(* Grouping: DataFrame.groupby(qi_cols, dropna=...) *)

HasColumns(cols, names) == \A i \in DOMAIN names : names[i] \in cols

Key(row, qi_cols) == [i \in DOMAIN qi_cols |-> row[qi_cols[i]]]

KeyHasNaN(k) == \E i \in DOMAIN k : k[i] = NaN

(* a grouping of adjacent rows only: the class of a key is its first run *)
groupby_first_run(rows, qi_cols, dropna) ==
    LET keys == {Key(rows[i], qi_cols) : i \in DOMAIN rows}
        kept == IF dropna THEN {k \in keys : ~KeyHasNaN(k)} ELSE keys
    IN  [k \in kept |->
            {i \in DOMAIN rows :
                \E first \in DOMAIN rows :
                    /\ first <= i
                    /\ \A j \in 1..(first - 1) : Key(rows[j], qi_cols) # k
                    /\ \A j \in first..i : Key(rows[j], qi_cols) = k}]

groupby(rows, qi_cols, dropna) ==
    LET keys == {Key(rows[i], qi_cols) : i \in DOMAIN rows}
        kept == IF dropna THEN {k \in keys : ~KeyHasNaN(k)} ELSE keys
    IN  [k \in kept |-> {i \in DOMAIN rows : Key(rows[i], qi_cols) = k}]

----------------------------------------------------------------------------
(* k-anonymity *)

k_anonymity_groupby_dropna_off == TRUE

k_anonymity_groupby_dropna == FALSE

eq_class_size_hist_distinct_only(eq_class_sizes) ==
    [sz \in {eq_class_sizes[k] : k \in DOMAIN eq_class_sizes} |-> 1]

(* eq_class_sizes.value_counts().sort_index().to_dict() *)
eq_class_size_hist(eq_class_sizes) ==
    [sz \in {eq_class_sizes[k] : k \in DOMAIN eq_class_sizes} |->
        Cardinality({k \in DOMAIN eq_class_sizes : eq_class_sizes[k] = sz})]

k_anonymity(self_df, qi_cols) ==
    IF ~HasColumns(Columns, qi_cols) THEN Raised("k_anonymity", "KeyError")
    ELSE
    LET grouped == groupby(self_df, qi_cols, k_anonymity_groupby_dropna)
        eq_class_sizes == [k \in DOMAIN grouped |-> Cardinality(grouped[k])]
        keys == DOMAIN eq_class_sizes
        sizes == {eq_class_sizes[k] : k \in keys}
        k_min == IF keys # {} THEN MinSet(sizes) ELSE 0
        k_avg == IF keys # {} THEN Some(SumFn(eq_class_sizes, keys), Cardinality(keys))
                 ELSE Some(0, 1)
        hist == eq_class_size_hist(eq_class_sizes)
    IN  Returned("k_anonymity",
                 [k_min |-> Some(k_min, 1), k_avg |-> k_avg, eq_class_size_hist |-> hist])

----------------------------------------------------------------------------
(* l-diversity *)

(* The entropy of a class is kept exactly, as the profile of the class:     *)
(* the function from each count c of a sensitive value in the class to the  *)
(* number of values that have that count, counts divided by their gcd.      *)
(* With n the sum of the counts, 2^H = n / (product of c^c)^(1/n).          *)

ProfileN(p) == SumFn([c \in DOMAIN p |-> c * p[c]], DOMAIN p)

ProfilePi(p) == ProdFn([c \in DOMAIN p |-> Pow(Pow(c, c), p[c])], DOMAIN p)

RECURSIVE GcdSet(_)
GcdSet(S) == IF S = {} THEN 0
             ELSE LET x == CHOOSE y \in S : TRUE IN Gcd(x, GcdSet(S \ {x}))

_safe_entropy(counts) ==
    LET pos == {v \in DOMAIN counts : counts[v] > 0}
        g == GcdSet({counts[v] : v \in pos})
        cs == {counts[v] \div g : v \in pos}
    IN  IF pos = {} THEN (1 :> 1)
        ELSE [c \in cs |-> Cardinality({v \in pos : counts[v] \div g = c})]

ZeroEntropy == (1 :> 1)

(* H(p) <= H(q) *)
EntropyLeq(p, q) ==
    LET n == ProfileN(p)
        m == ProfileN(q)
        g == Gcd(n, m)
    IN  \/ p = q
        \/ Pow(n, (n * m) \div g) * Pow(ProfilePi(q), n \div g)
              <= Pow(m, (n * m) \div g) * Pow(ProfilePi(p), m \div g)

(* 2^H(p) < x *)
Exp2Lt(p, x) ==
    LET n == ProfileN(p)
    IN  Pow(n * x.d, n) < Pow(x.n, n) * ProfilePi(p)

value_counts(rows, idx, col) ==
    [v \in {rows[i][col] : i \in idx} |-> Cardinality({i \in idx : rows[i][col] = v})]

nunique(rows, idx, col, dropna) ==
    Cardinality({rows[i][col] : i \in idx} \ (IF dropna THEN {NaN} ELSE {}))

l_method_branch_fallback(method) ==
    IF method = "entropy" THEN "entropy" ELSE "distinct"

(* the if / elif / else on method *)
l_method_branch(method) ==
    IF method = "distinct" THEN "distinct"
    ELSE IF method = "entropy" THEN "entropy"
    ELSE "raise"

entropy_level_dropna_off == FALSE

entropy_level_dropna == TRUE

l_nunique_dropna_on == TRUE

(* grp.nunique(dropna=False) *)
l_nunique_dropna == FALSE

l_diversity(self_df, qi_cols, sensitive_col, method) ==
    IF ~HasColumns(Columns, qi_cols) \/ sensitive_col \notin Columns
    THEN Raised("l_diversity", "KeyError")
    ELSE
    LET grp == groupby(self_df, qi_cols, FALSE)
        keys == DOMAIN grp
        l_values == [k \in keys |-> nunique(self_df, grp[k], sensitive_col, l_nunique_dropna)]
        l_min == IF keys # {} THEN Some(MinSet({l_values[k] : k \in keys}), 1) ELSE Some(0, 1)
        l_avg == IF keys # {} THEN Some(SumFn(l_values, keys), Cardinality(keys)) ELSE Some(0, 1)
        probs == [k \in keys |-> value_counts(self_df, grp[k], sensitive_col)]
        ekeys == IF entropy_level_dropna THEN {k \in keys : ~KeyHasNaN(k)} ELSE keys
        entropies == [k \in ekeys |-> _safe_entropy(probs[k])]
        entropy_min == IF ekeys # {}
                       THEN entropies[CHOOSE k \in ekeys :
                                \A j \in ekeys : EntropyLeq(entropies[k], entropies[j])]
                       ELSE ZeroEntropy
        entropy_avg == IF ekeys # {}
                       THEN [p \in {entropies[k] : k \in ekeys} |->
                                Cardinality({k \in ekeys : entropies[k] = p})]
                       ELSE (ZeroEntropy :> 1)
    IN  IF l_method_branch(method) = "distinct"
        THEN Returned("l_diversity", [method |-> method, l_min |-> l_min, l_avg |-> l_avg])
        ELSE IF l_method_branch(method) = "entropy"
        THEN Returned("l_diversity",
                 [method |-> method, l_min |-> l_min, l_avg |-> l_avg,
                  entropy_min |-> [bits |-> entropy_min],
                  entropy_avg |-> [mean_bits |-> entropy_avg],
                  entropy_effective_min |-> [exp2 |-> entropy_min],
                  entropy_effective_avg |-> [exp2_mean |-> entropy_avg]])
        ELSE Raised("l_diversity", "ValueError")

----------------------------------------------------------------------------
(* t-closeness *)

DTypes == {"object", "float64"}

(* pd.api.types.is_numeric_dtype(self.df[col]) *)
is_numeric_dtype(col) ==
    \/ col = "s" /\ s_dtype = "float64"
    \/ col = "q1" /\ q_dtype = "float64"

_total_variation_distance(p, q, cats) ==
    LET psum == SumFn(p, cats)
        qsum == SumFn(q, cats)
    IN  IF cats = {} THEN Some(0, 1)
        ELSE IF psum = 0 /\ qsum = 0 THEN Some(0, 1)
        ELSE IF psum = 0 THEN Some(1, 2)
        ELSE IF qsum = 0 THEN Some(1, 2)
        ELSE Reduce(Some(SumFn([c \in cats |-> Abs(p[c] * qsum - q[c] * psum)], cats),
                         2 * psum * qsum))

(* scipy.stats.wasserstein_distance of two samples, given as sets of row    *)
(* indices: the area between the two empirical distribution functions.      *)
_emd_distance(rows, col, p_idx, q_idx) ==
    LET V == {rows[i][col] : i \in p_idx \cup q_idx}
        steps == {s \in V \X V : s[1] < s[2] /\ ~\E c \in V : s[1] < c /\ c < s[2]}
        Fp(v) == Cardinality({i \in p_idx : rows[i][col] <= v})
        Fq(v) == Cardinality({i \in q_idx : rows[i][col] <= v})
        np == Cardinality(p_idx)
        nq == Cardinality(q_idx)
    IN  Reduce(Some(SumFn([s \in steps |-> Abs(Fp(s[1]) * nq - Fq(s[1]) * np) * (s[2] - s[1])],
                          steps),
                    np * nq))

RECURSIVE SumRat(_, _)
SumRat(f, D) == IF D = {} THEN Some(0, 1)
                ELSE LET x == CHOOSE y \in D : TRUE IN Add(f[x], SumRat(f, D \ {x}))

MaxRat(f, D) == f[CHOOSE k \in D : \A j \in D : ~Lt(f[k], f[j])]

TMethods == {"tvd", "emd", "bogus"}

BinningMethods == {"fd", "quantile"}

NumericBins == {1, 2}

(* the values of the rows idx in ascending order *)
RECURSIVE sorted_values(_, _, _)
sorted_values(rows, col, idx) ==
    IF idx = {} THEN <<>>
    ELSE LET i == CHOOSE a \in idx : \A b \in idx : rows[a][col] <= rows[b][col]
         IN  <<rows[i][col]>> \o sorted_values(rows, col, idx \ {i})

(* 4 * np.percentile(xs, 25 * k), linear interpolation between the two      *)
(* neighbours of position (n - 1) * k / 4                                   *)
percentile4(xs, k) ==
    LET pos4 == (Len(xs) - 1) * k
        lo == (pos4 \div 4) + 1
        r == pos4 % 4
    IN  IF r = 0 THEN 4 * xs[lo] ELSE 4 * xs[lo] + r * (xs[lo + 1] - xs[lo])

(* lines 229-234: the Freedman-Diaconis bin count.  With iqr > 0,           *)
(* h = 2 * iqr * n^(-1/3) and ceil((x_max - x_min) / h) is the least c with *)
(* (c * 4 iqr)^3 >= 8 * (x_max - x_min)^3 * n.                              *)
bin_count(xs, numeric_bins) ==
    LET n == Len(xs)
        range == xs[n] - xs[1]
        iqr4 == percentile4(xs, 3) - percentile4(xs, 1)
        enough(c) == Pow(c * iqr4, 3) >= 8 * Pow(range, 3) * n
    IN  IF iqr4 > 0
        THEN CHOOSE c \in 1..(2 * range * n + 1) : enough(c) /\ ~enough(c - 1)
        ELSE IF range = 0 THEN 1
        ELSE IF numeric_bins > 1 THEN numeric_bins ELSE 1

(* np.histogram_bin_edges(x, bins=bin_count): equal widths from x_min to    *)
(* x_max, and from x_min - 0.5 to x_max + 0.5 when the two are equal        *)
histogram_bin_edges(xs, bc) ==
    LET n == Len(xs)
        first == IF xs[1] = xs[n] THEN Some(2 * xs[1] - 1, 2) ELSE Some(xs[1], 1)
        last == IF xs[1] = xs[n] THEN Some(2 * xs[n] + 1, 2) ELSE Some(xs[n], 1)
    IN  [i \in 1..(bc + 1) |->
            Reduce(Some(first.n * last.d * (bc - (i - 1)) + last.n * first.d * (i - 1),
                        first.d * last.d * bc))]

(* np.histogram(values, bins=edges): bin b holds edges[b] <= v < edges[b+1],*)
(* the last bin also holds v = edges[bc + 1]                                *)
histogram(rows, col, idx, edges) ==
    LET bc == Len(edges) - 1
        inbin(v, b) ==
            /\ ~Lt(Some(v, 1), edges[b])
            /\ (Lt(Some(v, 1), edges[b + 1]) \/ (b = bc /\ Eq(Some(v, 1), edges[b + 1])))
    IN  [b \in 1..bc |-> Cardinality({i \in idx : inbin(rows[i][col], b)})]

degenerate_distance_one == Some(1, 1)

(* line 213: dist_func of the column with no value, return 0.0 *)
degenerate_distance == Some(0, 1)

NoBins == [given |-> FALSE, edges |-> <<>>]

(* lines 207-251: the bins and the distance function the branches define.   *)
(* bound is FALSE where no branch assigns dist_func.                        *)
dist_func(self_df, sensitive_col, numeric_bins, binning_method, t_method) ==
    LET x == {i \in DOMAIN self_df : self_df[i][sensitive_col] # NaN}
        xs == sorted_values(self_df, sensitive_col, x)
    IN  IF is_numeric_dtype(sensitive_col)
        THEN IF x = {}
             THEN [bound |-> TRUE, kind |-> "zero", bins |-> NoBins, x |-> x]
             ELSE IF binning_method = "quantile"
             THEN [bound |-> FALSE, kind |-> "", bins |-> NoBins, x |-> x]
             ELSE [bound |-> TRUE,
                   kind |-> IF t_method = "emd" THEN "emd" ELSE "hist",
                   bins |-> [given |-> TRUE,
                             edges |-> histogram_bin_edges(xs, bin_count(xs, numeric_bins))],
                   x |-> x]
        ELSE [bound |-> TRUE, kind |-> "cat", bins |-> NoBins, x |-> x]

(* dist_func(subs) on the class with rows idx *)
class_distance(self_df, sensitive_col, f, idx) ==
    LET sub == idx \cap f.x
        cats == {self_df[i][sensitive_col] : i \in f.x}
        counts(S) == [c \in cats |-> Cardinality({i \in S : self_df[i][sensitive_col] = c})]
    IN  IF f.kind = "zero" THEN Returned("dist_func", degenerate_distance)
        ELSE IF f.kind = "emd"
        THEN IF sub = {} THEN Raised("dist_func", "ValueError")
             ELSE Returned("dist_func", _emd_distance(self_df, sensitive_col, sub, f.x))
        ELSE IF f.kind = "hist"
        THEN Returned("dist_func",
                 _total_variation_distance(
                     histogram(self_df, sensitive_col, sub, f.bins.edges),
                     histogram(self_df, sensitive_col, f.x, f.bins.edges),
                     1..(Len(f.bins.edges) - 1)))
        ELSE Returned("dist_func",
                 _total_variation_distance(counts(sub), counts(f.x), cats))

(* line 253-256: the distances of the classes, their maximum and mean *)
t_report(self_df, qi_cols, sensitive_col, t_method, f) ==
    LET grp == groupby(self_df, qi_cols, FALSE)
        keys == DOMAIN grp
        t_outcomes == [k \in keys |-> class_distance(self_df, sensitive_col, f, grp[k])]
        t_values == [k \in keys |-> t_outcomes[k].value]
        t_max == IF keys # {} THEN MaxRat(t_values, keys) ELSE Some(0, 1)
        t_avg == IF keys # {}
                 THEN LET s == SumRat(t_values, keys)
                      IN  Reduce(Some(s.n, s.d * Cardinality(keys)))
                 ELSE Some(0, 1)
    IN  IF \E k \in keys : t_outcomes[k].status # "ok"
        THEN Raised("t_closeness", "ValueError")
        ELSE Returned("t_closeness",
                      [t_max |-> t_max, t_avg |-> t_avg, bins |-> f.bins, method |-> t_method])

t_closeness(self_df, qi_cols, sensitive_col, numeric_bins, binning_method, t_method) ==
    IF sensitive_col \notin Columns THEN Raised("t_closeness", "KeyError")
    ELSE IF ~HasColumns(Columns, qi_cols) THEN Raised("t_closeness", "KeyError")
    ELSE IF ~dist_func(self_df, sensitive_col, numeric_bins, binning_method, t_method).bound
    THEN Raised("t_closeness", "UnboundLocalError")
    ELSE t_report(self_df, qi_cols, sensitive_col, t_method,
                  dist_func(self_df, sensitive_col, numeric_bins, binning_method, t_method))

----------------------------------------------------------------------------
(* Linkage attack *)

AuxRows == [q1 : QIVals, q2 : QIVals]

(* An auxiliary DataFrame: its columns, its rows and its index, the label   *)
(* of each row.  RangeIndex is the default index 0, 1, ...                  *)
RangeIndex(n) == [i \in 1..n |-> i - 1]

NoExternal == [given |-> FALSE, columns |-> {}, rows |-> <<>>, index |-> <<>>]

External(a) == [given |-> TRUE, columns |-> a.columns, rows |-> a.rows, index |-> a.index]

RECURSIVE ascending(_)
ascending(S) ==
    IF S = {} THEN <<>>
    ELSE LET m == CHOOSE x \in S : \A y \in S : x <= y IN <<m>> \o ascending(S \ {m})

flagged_rows_any_match(rows, counts) ==
    LET hits == ascending({L \in DOMAIN counts : counts[L] >= 1})
    IN  IF \E h \in DOMAIN hits : hits[h] \notin 0..(Len(rows) - 1)
        THEN Raised("loc", "KeyError")
        ELSE Returned("loc", [h \in DOMAIN hits |-> rows[hits[h] + 1]])

(* line 61: aux.loc[counts[counts == 1].index] looks the labels of the      *)
(* uniquely matched records up in the index of aux, which reset_index made  *)
(* 0 .. len(aux) - 1; a label that is not there is a KeyError.              *)
flagged_rows(rows, counts) ==
    LET hits == ascending({L \in DOMAIN counts : counts[L] = 1})
    IN  IF \E h \in DOMAIN hits : hits[h] \notin 0..(Len(rows) - 1)
        THEN Raised("loc", "KeyError")
        ELSE Returned("loc", [h \in DOMAIN hits |-> rows[hits[h] + 1]])

aux_df_after_inplace(aux_df) ==
    [aux_df EXCEPT !.columns = @ \cup {"__aux_id__"},
                   !.index = RangeIndex(Len(aux_df.rows))]

(* line 54: reset_index and rename are applied to aux_df.copy(); this is    *)
(* the frame the caller holds after the call                                *)
aux_df_after(aux_df) == aux_df

simulate_linkage_attack(anonymised_df, aux_df, qi_cols) ==
    IF ~HasColumns(aux_df.columns, qi_cols) \/ ~HasColumns(Columns, qi_cols)
    THEN Raised("simulate_linkage_attack", "KeyError")
    ELSE
    LET rows == aux_df.rows
        ids == aux_df.index
        matches(r) == Cardinality({i \in DOMAIN anonymised_df :
                                     Key(anonymised_df[i], qi_cols) = Key(r, qi_cols)})
        labels == {ids[a] : a \in DOMAIN rows}
        counts == [L \in labels |->
                     SumFn([a \in DOMAIN rows |-> matches(rows[a])],
                           {a \in DOMAIN rows : ids[a] = L})]
        unique == Cardinality({L \in labels : counts[L] = 1})
        multiple == Cardinality({L \in labels : counts[L] > 1})
        none == Cardinality({L \in labels : counts[L] = 0})
        flagged == flagged_rows(rows, counts)
        reid_prob == IF Len(rows) # 0 THEN Some(unique, Len(rows)) ELSE Some(0, 1)
    IN  IF flagged.status # "ok" THEN Raised("simulate_linkage_attack", "KeyError")
        ELSE Returned("simulate_linkage_attack",
                 [unique |-> unique, multiple |-> multiple, none |-> none,
                  flagged |-> flagged.value, records_tested |-> Len(rows),
                  reid_probability |-> reid_prob])

----------------------------------------------------------------------------
(* Threshold advisor *)

(* s.dtype.kind: 'f' for float64, 'O' for object *)
dtype_kind(col) == IF is_numeric_dtype(col) THEN "f" ELSE "O"

(* lines 163-168 *)
k_suggested(n_rows) == IF n_rows < 1000 THEN 5 ELSE IF n_rows < 10000 THEN 10 ELSE 20

reid_suggested_from_1000(n_rows) == IF n_rows >= 1000 THEN Some(5, 100) ELSE Some(1, 10)

(* line 184 *)
reid_suggested(n_rows) == IF n_rows > 1000 THEN Some(5, 100) ELSE Some(1, 10)

(* qi_cols is not read; s.nunique() leaves the missing value out *)
suggest_thresholds(self_df, qi_cols, sensitive_col) ==
    IF sensitive_col \notin Columns THEN Raised("suggest_thresholds", "KeyError")
    ELSE
    LET n_rows == Len(self_df)
        l_suggested == IF nunique(self_df, DOMAIN self_df, sensitive_col, TRUE) <= 10
                       THEN 2 ELSE 3
        t_suggested == IF dtype_kind(sensitive_col) \in {"i", "f"}
                       THEN Some(2, 10) ELSE Some(3, 10)
    IN  Returned("suggest_thresholds",
                 [k |-> k_suggested(n_rows), l |-> l_suggested, t |-> t_suggested,
                  reid_probability |-> reid_suggested(n_rows)])

----------------------------------------------------------------------------
(* Behaviour patterns *)

(* groupby iterates the classes in sorted key order, missing values last *)
KeyOrd(v) == IF v = NaN THEN MaxSet(QIVals \cup SensVals) + 2 ELSE v

RECURSIVE KeyLess(_, _)
KeyLess(a, b) ==
    IF a = <<>> THEN FALSE
    ELSE IF KeyOrd(Head(a)) # KeyOrd(Head(b)) THEN KeyOrd(Head(a)) < KeyOrd(Head(b))
    ELSE KeyLess(Tail(a), Tail(b))

RECURSIVE SortedKeys(_)
SortedKeys(S) ==
    IF S = {} THEN <<>>
    ELSE LET m == CHOOSE k \in S : \A j \in S \ {k} : KeyLess(k, j)
         IN  <<m>> \o SortedKeys(S \ {m})

(* str() of a value of the sensitive column *)
ToStr(v, col) ==
    IF v = NaN THEN "nan"
    ELSE IF is_numeric_dtype(col)
    THEN (IF v = 1 THEN "1.0" ELSE IF v = 2 THEN "2.0" ELSE "3.0")
    ELSE (IF v = 1 THEN "1" ELSE IF v = 2 THEN "2" ELSE "3")

is_rare_strict(size, rare_threshold) == size < rare_threshold

(* line 409: len(group) <= rare_threshold *)
is_rare(size, rare_threshold) == size <= rare_threshold

RECURSIVE rare_combinations(_, _, _)
rare_combinations(grouped, order, rare_threshold) ==
    IF order = <<>> THEN <<>>
    ELSE LET qi_vals == Head(order)
             size == Cardinality(grouped[qi_vals])
         IN  (IF is_rare(size, rare_threshold)
              THEN <<[qi_values |-> qi_vals, count |-> size]>> ELSE <<>>)
             \o rare_combinations(grouped, Tail(order), rare_threshold)

is_dominant_or_equal(freq, dominance_threshold) == ~Lt(freq, dominance_threshold)

(* line 415: dist.max() > dominance_threshold *)
is_dominant(freq, dominance_threshold) == Gt(freq, dominance_threshold)

(* lines 414-420: value_counts(normalize=True, dropna=False) counts the     *)
(* missing value as a value                                                 *)
RECURSIVE sensitive_skew(_, _, _, _, _)
sensitive_skew(self_df, grouped, order, sensitive_col, dominance_threshold) ==
    IF order = <<>> THEN <<>>
    ELSE LET qi_vals == Head(order)
             group == grouped[qi_vals]
             dist == value_counts(self_df, group, sensitive_col)
             idxmax == CHOOSE v \in DOMAIN dist : \A w \in DOMAIN dist : dist[v] >= dist[w]
             freq == Some(dist[idxmax], Cardinality(group))
         IN  (IF DOMAIN dist # {} /\ is_dominant(freq, dominance_threshold)
              THEN <<[qi_values |-> qi_vals, dominant_sensitive |-> ToStr(idxmax, sensitive_col),
                      frequency |-> freq]>>
              ELSE <<>>)
             \o sensitive_skew(self_df, grouped, Tail(order), sensitive_col,
                               dominance_threshold)

(* line 427: DataFrame.corr() is Pearson's r over the rows where both       *)
(* values are present, and NaN when one of the two variances is zero.  r is *)
(* kept as its sign and its square.                                         *)
corr(self_df, qi, sensitive_col) ==
    LET idx == {i \in DOMAIN self_df : self_df[i][qi] # NaN /\ self_df[i][sensitive_col] # NaN}
        n == Cardinality(idx)
        sx == SumFn([i \in idx |-> self_df[i][qi]], idx)
        sy == SumFn([i \in idx |-> self_df[i][sensitive_col]], idx)
        sxy == SumFn([i \in idx |-> self_df[i][qi] * self_df[i][sensitive_col]], idx)
        sxx == SumFn([i \in idx |-> self_df[i][qi] * self_df[i][qi]], idx)
        syy == SumFn([i \in idx |-> self_df[i][sensitive_col] * self_df[i][sensitive_col]], idx)
        cov == n * sxy - sx * sy
        vv == (n * sxx - sx * sx) * (n * syy - sy * sy)
    IN  IF vv = 0 THEN [nan |-> TRUE, sign |-> 0, sq |-> Some(0, 1)]
        ELSE [nan |-> FALSE, sign |-> IF cov < 0 THEN -1 ELSE IF cov = 0 THEN 0 ELSE 1,
              sq |-> Reduce(Some(cov * cov, vv))]

(* lines 427-433: abs(corr) > 0.5, false for NaN *)
pearson_entry(self_df, qi, sensitive_col) ==
    LET r == corr(self_df, qi, sensitive_col)
    IN  IF ~r.nan /\ Gt(r.sq, Some(1, 4))
        THEN <<[qi |-> qi, sensitive |-> sensitive_col, correlation |-> r]>>
        ELSE <<>>

(* pd.crosstab leaves out the rows where either value is missing.  chi2 of  *)
(* the table without correction is n' * (sum of O^2 / (row * column) - 1).  *)
chi2_statistic(self_df, qi, sensitive_col) ==
    LET idx == {i \in DOMAIN self_df : self_df[i][qi] # NaN /\ self_df[i][sensitive_col] # NaN}
        rs == {self_df[i][qi] : i \in idx}
        cs == {self_df[i][sensitive_col] : i \in idx}
        O(a, b) == Cardinality({i \in idx : self_df[i][qi] = a /\ self_df[i][sensitive_col] = b})
        R(a) == Cardinality({i \in idx : self_df[i][qi] = a})
        C(b) == Cardinality({i \in idx : self_df[i][sensitive_col] = b})
        cells == rs \X cs
        term == [x \in cells |-> Reduce(Some(O(x[1], x[2]) * O(x[1], x[2]), R(x[1]) * C(x[2])))]
        s == SumRat(term, cells)
    IN  [size |-> Cardinality(cells), r |-> Cardinality(rs), c |-> Cardinality(cs),
         chi2 |-> Reduce(Some(Cardinality(idx) * (s.n - s.d), s.d))]

(* lines 437-451: cramers_v > 0.2, on the square of Cramer's V *)
cramers_v_entry(self_df, qi, sensitive_col) ==
    LET n == Len(self_df)
        table == chi2_statistic(self_df, qi, sensitive_col)
        mn == IF table.r < table.c THEN table.r - 1 ELSE table.c - 1
        denom == n * (IF mn > 0 THEN mn ELSE 1)
        cramers_v_sq == Reduce(Some(table.chi2.n, table.chi2.d * denom))
    IN  IF table.size = 0 \/ n = 0 THEN <<>>
        ELSE IF Gt(cramers_v_sq, Some(4, 100))
        THEN <<[qi |-> qi, sensitive |-> sensitive_col,
                association_cramers_v |-> [sqrt |-> cramers_v_sq],
                chi2 |-> table.chi2,
                p_value |-> [chi2 |-> table.chi2,
                             dof |-> (table.r - 1) * (table.c - 1)]]>>
        ELSE <<>>

(* lines 424-451, one QI column: the inner dtype test is made only when the *)
(* sensitive column is numeric                                              *)
correlation_entry(self_df, qi, sensitive_col) ==
    IF is_numeric_dtype(sensitive_col)
    THEN (IF is_numeric_dtype(qi) THEN pearson_entry(self_df, qi, sensitive_col) ELSE <<>>)
    ELSE cramers_v_entry(self_df, qi, sensitive_col)

(* whether pandas or scipy is called for the QI column *)
calls_library(qi, sensitive_col) ==
    ~is_numeric_dtype(sensitive_col) \/ is_numeric_dtype(qi)

(* lines 422-453, from the QI column at position pos on.  fault is the      *)
(* position in qi_cols of the QI column for which the call of pandas or     *)
(* scipy (lines 427, 437, 440) raises, 0 when none does: the entries        *)
(* appended before the exception stay in the list.                          *)
RECURSIVE qi_sensitive_correlation(_, _, _, _, _)
qi_sensitive_correlation(self_df, qi_cols, sensitive_col, pos, fault) ==
    IF pos > Len(qi_cols) THEN [entries |-> <<>>, raised |-> FALSE]
    ELSE IF fault = pos /\ calls_library(qi_cols[pos], sensitive_col)
    THEN [entries |-> <<>>, raised |-> TRUE]
    ELSE LET rest == qi_sensitive_correlation(self_df, qi_cols, sensitive_col, pos + 1, fault)
         IN  [entries |-> correlation_entry(self_df, qi_cols[pos], sensitive_col)
                          \o rest.entries,
              raised |-> rest.raised]

on_correlation_error_reset(patterns, found) ==
    IF found.raised
    THEN [rare_combinations |-> <<>>, sensitive_skew |-> <<>>,
          qi_sensitive_correlation |-> <<>>, correlation_error |-> "Exception"]
    ELSE [rare_combinations |-> patterns.rare_combinations,
          sensitive_skew |-> patterns.sensitive_skew,
          qi_sensitive_correlation |-> found.entries]

(* lines 452-453: except Exception as e: the error string is added to the   *)
(* dictionary, which keeps what it held                                     *)
on_correlation_error(patterns, found) ==
    IF found.raised
    THEN [rare_combinations |-> patterns.rare_combinations,
          sensitive_skew |-> patterns.sensitive_skew,
          qi_sensitive_correlation |-> found.entries,
          correlation_error |-> "Exception"]
    ELSE [rare_combinations |-> patterns.rare_combinations,
          sensitive_skew |-> patterns.sensitive_skew,
          qi_sensitive_correlation |-> found.entries]

behaviour_patterns(self_df, qi_cols, sensitive_col, dominance_threshold, rare_threshold, fault) ==
    LET grouped == groupby(self_df, qi_cols, FALSE)
        order == SortedKeys(DOMAIN grouped)
    IN  on_correlation_error(
            [rare_combinations |-> rare_combinations(grouped, order, rare_threshold),
             sensitive_skew |-> sensitive_skew(self_df, grouped, order, sensitive_col,
                                               dominance_threshold)],
            qi_sensitive_correlation(self_df, qi_cols, sensitive_col, 1, fault))

----------------------------------------------------------------------------
(* Full report *)

NaNFloat == [given |-> TRUE, n |-> 0, d |-> 0]

data_summary(self_df) ==
    [n_rows |-> Len(self_df),
     n_cols |-> Cardinality(Columns),
     missing_rates |->
        [col \in Columns |->
            IF Len(self_df) = 0 THEN NaNFloat
            ELSE Some(Cardinality({i \in DOMAIN self_df : self_df[i][col] = NaN}),
                      Len(self_df))]]

K_NULL == [k_min |-> None, k_avg |-> None]

L_NULL == [method |-> None, l_min |-> None, l_avg |-> None]

T_NULL == [t_max |-> None, t_avg |-> None, method |-> None]

NoFlags == [flags |-> <<>>, repairs |-> <<>>]

append_k_flag_only(fr) ==
    [flags |-> Append(fr.flags, "k-anonymity below threshold"),
     repairs |-> fr.repairs]

append_k(fr) ==
    [flags |-> Append(fr.flags, "k-anonymity below threshold"),
     repairs |-> Append(fr.repairs, "Consider generalising or suppressing QIs")]

append_l_entropy(fr) ==
    [flags |-> Append(fr.flags, "entropy l-diversity (effective) below threshold"),
     repairs |-> Append(fr.repairs,
        "Consider generalising QIs or grouping sensitive values to increase entropy.")]

append_l_distinct(fr) ==
    [flags |-> Append(fr.flags, "l-diversity (distinct) below threshold"),
     repairs |-> Append(fr.repairs, "Consider generalising QIs to increase diversity.")]

append_t(fr) ==
    [flags |-> Append(fr.flags, "t-closeness above threshold"),
     repairs |-> Append(fr.repairs,
        "Consider generalising QIs or binning sensitive variable differently.")]

append_reid(fr) ==
    [flags |-> Append(fr.flags, "Re-identification probability too high"),
     repairs |-> Append(fr.repairs,
        "Consider suppressing unique QI combinations or generalising QIs.")]

(* The comparisons of lines 370-391, each on a metric that was computed. *)

k_violated_or_equal(k_min, k_required) == ~Lt(k_required, k_min)

k_violated(k_min, k_required) == Lt(k_min, k_required)

l_violated_distinct_only(lrep, l_method, l_required) == Lt(lrep.l_min, l_required)

l_violated(lrep, l_method, l_required) ==
    IF l_method = "entropy"
    THEN Exp2Lt(lrep.entropy_effective_min.exp2, l_required)
    ELSE Lt(lrep.l_min, l_required)

t_violated(t_max, t_required) == Gt(t_max, t_required)

reid_violated(reid_probability, reid_required) == Gt(reid_probability, reid_required)

with_attack_simulation_always(report, external_df, attack_results) ==
    [x \in DOMAIN report \cup {"attack_simulation"} |->
        IF x = "attack_simulation" THEN attack_results ELSE report[x]]

(* lines 388-390: the key is set only inside "if external_df is not None" *)
with_attack_simulation(report, external_df, attack_results) ==
    IF external_df.given
    THEN [x \in DOMAIN report \cup {"attack_simulation"} |->
            IF x = "attack_simulation" THEN attack_results ELSE report[x]]
    ELSE report

(* lines 367-393: the four checks in their order.  k, l, t and attack are   *)
(* the outcomes of the analyzers; krep, lrep, trep exist only when the      *)
(* analyzer returned.                                                       *)
check_k(fr, p, k) ==
    IF p.k_required.given /\ k.status = "ok" /\ k_violated(k.value.k_min, p.k_required)
    THEN append_k(fr) ELSE fr

check_l(fr, p, l) ==
    IF p.l_required.given /\ l.status = "ok" /\ l_violated(l.value, p.l_method, p.l_required)
    THEN (IF p.l_method = "entropy" THEN append_l_entropy(fr) ELSE append_l_distinct(fr))
    ELSE fr

check_t(fr, p, t) ==
    IF p.t_required.given /\ t.status = "ok" /\ t_violated(t.value.t_max, p.t_required)
    THEN append_t(fr) ELSE fr

check_reid(fr, p, external_df, attack) ==
    IF external_df.given /\ attack.status = "ok" /\ p.reid_required.given
       /\ reid_violated(attack.value.reid_probability, p.reid_required)
    THEN append_reid(fr) ELSE fr

(* Where the call raises, if it does: "" when it returns. *)
raise_point(p, external_df, suggested, k, l, t, attack) ==
    IF suggested.status # "ok" THEN "suggest_thresholds"
    ELSE IF p.k_required.given /\ k.status # "ok" THEN "krep"
    ELSE IF p.l_required.given /\ l.status # "ok" THEN "lrep"
    ELSE IF p.t_required.given /\ t.status # "ok" THEN "trep"
    ELSE IF external_df.given /\ attack.status # "ok" THEN "merge"
    ELSE IF ~HasColumns(Columns, p.qi) THEN "groupby"
    ELSE ""

analyzers_computed(k, l, t) ==
    (IF k.status = "ok" THEN {"k_anonymity"} ELSE {})
    \cup (IF l.status = "ok" THEN {"l_diversity"} ELSE {})
    \cup (IF t.status = "ok" THEN {"t_closeness"} ELSE {})

report_of(self_df, p, external_df, suggested, k, l, t, attack, fr, fault) ==
    with_attack_simulation(
        [schema_version |-> "1.0.0",
         params |-> p,
         suggested_thresholds |-> suggested.value,
         data_summary |-> data_summary(self_df),
         k_anonymity |-> IF k.status = "ok" THEN k.value ELSE K_NULL,
         l_diversity |-> IF l.status = "ok" THEN l.value ELSE L_NULL,
         t_closeness |-> IF t.status = "ok" THEN t.value ELSE T_NULL,
         risk_flags |-> fr.flags,
         repair_suggestions |-> fr.repairs,
         behaviour_patterns |->
            behaviour_patterns(self_df, p.qi, p.sensitive,
                               p.dominance_threshold, p.rare_threshold, fault)],
        external_df, attack.value)

(* The value is the outcome of the call, the number of batches of debug     *)
(* lines it appended to log.txt, and the analyzers that had computed.       *)
assemble(self_df, p, external_df, suggested, k, l, t, attack, at, fault) ==
    IF at = "suggest_thresholds"
    THEN [out |-> Raised("full_report", "KeyError"), log |-> 0, computed |-> {}]
    ELSE IF at \in {"krep", "lrep", "trep"}
    THEN [out |-> Raised("full_report", "UnboundLocalError"), log |-> 1,
          computed |-> analyzers_computed(k, l, t)]
    ELSE IF at = "merge"
    THEN [out |-> Raised("full_report", "KeyError"), log |-> 1,
          computed |-> analyzers_computed(k, l, t)]
    ELSE IF at = "groupby"
    THEN [out |-> Raised("full_report", "KeyError"), log |-> 1,
          computed |-> analyzers_computed(k, l, t)
                       \cup (IF external_df.given THEN {"simulate_linkage_attack"} ELSE {})]
    ELSE [out |-> Returned("full_report",
                     report_of(self_df, p, external_df, suggested, k, l, t, attack,
                               check_reid(check_t(check_l(check_k(NoFlags, p, k), p, l),
                                                  p, t),
                                          p, external_df, attack),
                               fault)),
          log |-> 1,
          computed |-> analyzers_computed(k, l, t)
                       \cup (IF external_df.given THEN {"simulate_linkage_attack"} ELSE {})
                       \cup {"behaviour_patterns"}]

run_analyzers(self_df, p, external_df, suggested, k, l, t, attack, fault) ==
    assemble(self_df, p, external_df, suggested, k, l, t, attack,
             raise_point(p, external_df, suggested, k, l, t, attack), fault)

(* p: the keyword arguments of the call; fault: the QI column whose          *)
(* correlation computation raises in pandas or scipy, 0 for none.           *)
full_report(self_df, p, external_df, fault) ==
    run_analyzers(self_df, p, external_df,
                  suggest_thresholds(self_df, p.qi, p.sensitive),
                  k_anonymity(self_df, p.qi),
                  l_diversity(self_df, p.qi, p.sensitive, p.l_method),
                  t_closeness(self_df, p.qi, p.sensitive, p.numeric_bins, p.binning_method,
                              p.t_method),
                  simulate_linkage_attack(self_df, external_df, p.qi), fault)

----------------------------------------------------------------------------
(* Command-line entry point: the column checks, the report, the output file *)

cli_params(args) ==
    [qi |-> args.qi, sensitive |-> args.sensitive,
     k_required |-> args.k, l_required |-> args.l, l_method |-> args.l_method,
     t_required |-> args.t, reid_required |-> args.reid_probability,
     numeric_bins |-> 15, dominance_threshold |-> Some(9, 10),
     rare_threshold |-> 1, binning_method |-> "fd", t_method |-> "tvd"]

(* lines 66-82: the report, then atomic_write_json *)
cli_write(r) ==
    IF r.out.status # "ok"
    THEN [out |-> Raised("cli", r.out.exc), log |-> r.log, computed |-> r.computed,
          wrote |-> FALSE]
    ELSE [out |-> Returned("cli", r.out.value), log |-> r.log, computed |-> r.computed,
          wrote |-> TRUE]

cli_main(data_df, aux_df, args) ==
    LET missing_cols == {c \in {args.qi[i] : i \in DOMAIN args.qi} \cup {args.sensitive} :
                            c \notin Columns}
        missing_aux == {c \in {args.qi[i] : i \in DOMAIN args.qi} : c \notin aux_df.columns}
    IN  IF missing_cols # {}
        THEN [out |-> Raised("cli", "SystemExit"), log |-> 0, computed |-> {}, wrote |-> FALSE]
        ELSE IF aux_df.given /\ missing_aux # {}
        THEN [out |-> Raised("cli", "SystemExit"), log |-> 0, computed |-> {}, wrote |-> FALSE]
        ELSE cli_write(full_report(data_df, cli_params(args), aux_df, 0))

----------------------------------------------------------------------------
(* ValidatorAgent.run (privacy_validator/adk_multi_agent_system.py): the    *)
(* column fallbacks, the choice between explicit and suggested thresholds,  *)
(* the report, the debug log                                                *)

explicit_or_suggested_truthy(explicit, suggested) ==
    IF explicit.given /\ explicit.n # 0 THEN explicit ELSE suggested

(* lines 282-285: x if x is not None else suggested.get(...) *)
explicit_or_suggested(explicit, suggested) ==
    IF explicit.given THEN explicit ELSE suggested

(* lines 275-278: "" stands for an omitted sensitive_col *)
run_qi_cols(a) == IF a.qi_cols = <<>> THEN <<"q1">> ELSE a.qi_cols

run_sensitive_col(a) == IF a.sensitive_col = "" THEN "s" ELSE a.sensitive_col

(* lines 287-301 *)
run_params(a, suggested) ==
    [qi |-> run_qi_cols(a), sensitive |-> run_sensitive_col(a),
     k_required |-> explicit_or_suggested(a.k_required, Some(suggested.k, 1)),
     l_required |-> explicit_or_suggested(a.l_required, Some(suggested.l, 1)),
     l_method |-> a.l_method,
     t_required |-> explicit_or_suggested(a.t_required, suggested.t),
     reid_required |-> explicit_or_suggested(a.reid_required, suggested.reid_probability),
     numeric_bins |-> 15, dominance_threshold |-> Some(9, 10),
     rare_threshold |-> 1, binning_method |-> "fd", t_method |-> "tvd"]

(* lines 302-314: without log_event the findings are appended to log.txt *)
run_return(r, a) ==
    IF r.out.status # "ok"
    THEN [out |-> Raised("run", r.out.exc), log |-> r.log, computed |-> r.computed]
    ELSE [out |-> Returned("run", [validation_result |-> r.out.value]),
          log |-> r.log + (IF a.log_event THEN 0 ELSE 1), computed |-> r.computed]

run_validate(df_loaded, aux_df, a, suggested) ==
    IF suggested.status # "ok"
    THEN [out |-> Raised("run", suggested.exc), log |-> 0, computed |-> {}]
    ELSE run_return(full_report(df_loaded, run_params(a, suggested.value), aux_df, 0), a)

ValidatorAgent_run(df_loaded, aux_df, a) ==
    run_validate(df_loaded, aux_df, a,
                 suggest_thresholds(df_loaded, run_qi_cols(a), run_sensitive_col(a)))

----------------------------------------------------------------------------
(* State machine *)

Outcome(o, args, computed) ==
    [op |-> o.op, status |-> o.status, exc |-> o.exc, value |-> o.value,
     args |-> args, computed |-> computed]

NoResult == Outcome([op |-> "none", status |-> "none", exc |-> "", value |-> <<>>], <<>>, {})

QiChoices == {<<"q1">>, <<"q1", "q2">>, <<"q1", "zz">>}

LMethods == {"distinct", "entropy", "bogus"}

Init ==
    /\ df \in DataSets
    /\ s_dtype \in DTypes
    /\ q_dtype = "object"
    /\ aux = NoExternal
    /\ result = NoResult
    /\ log_txt = 0
    /\ out_file = FALSE
    /\ threads = <<>>

KAnonymityCall ==
    /\ result.op = "none"
    /\ \E qi_cols \in QiChoices :
          result' = Outcome(k_anonymity(df, qi_cols), [qi |-> qi_cols], {})
    /\ UNCHANGED <<threads, df, s_dtype, q_dtype, aux, log_txt, out_file>>

LArgs ==
    [qi : {<<"q1">>, <<"q1", "q2">>}, sensitive : {"s"}, method : {"distinct", "entropy"}]
    \cup [qi : {<<"q1">>, <<"q1", "zz">>}, sensitive : {"s"}, method : {"bogus"}]
    \cup [qi : {<<"q1", "zz">>}, sensitive : {"s"}, method : {"distinct"}]

LDiversityCall ==
    /\ result.op = "none"
    /\ \E a \in LArgs :
          result' = Outcome(l_diversity(df, a.qi, a.sensitive, a.method), a, {})
    /\ UNCHANGED <<threads, df, s_dtype, q_dtype, aux, log_txt, out_file>>

TArgs ==
    [qi : {<<"q1">>, <<"q1", "q2">>}, sensitive : {"s"}, numeric_bins : NumericBins,
     binning_method : {"fd"}, t_method : {"tvd"}]
    \cup [qi : {<<"q1">>, <<"q1", "q2">>}, sensitive : {"s"}, numeric_bins : {2},
          binning_method : {"quantile"}, t_method : {"tvd", "emd"}]
    \cup [qi : {<<"q1">>, <<"q1", "q2">>}, sensitive : {"s"}, numeric_bins : {2},
          binning_method : {"fd"}, t_method : {"emd", "bogus"}]
    \cup [qi : {<<"q1", "zz">>}, sensitive : {"s"}, numeric_bins : {1},
          binning_method : {"fd"}, t_method : {"tvd"}]

TClosenessCall ==
    /\ result.op = "none"
    /\ \E a \in TArgs :
          result' = Outcome(t_closeness(df, a.qi, a.sensitive, a.numeric_bins,
                                        a.binning_method, a.t_method), a, {})
    /\ UNCHANGED <<threads, df, s_dtype, q_dtype, aux, log_txt, out_file>>

Discard ==
    /\ result.op # "none"
    /\ result' = NoResult
    /\ UNCHANGED <<threads, df, s_dtype, q_dtype, aux, log_txt, out_file>>

Next == KAnonymityCall \/ LDiversityCall \/ TClosenessCall \/ Discard

Spec == Init /\ [][Next]_vars

----------------------------------------------------------------------------
(* One call of the report assembler, of the linkage attack or of the       *)
(* command line on a fresh validator                                       *)

ReportRows == [q1 : QIVals, q2 : {1}, s : SensVals \ {NaN}]

ReportDataSets == UNION {[1..n -> ReportRows] : n \in 0..MaxRows}

ReportAuxRows == [q1 : QIVals, q2 : {1}]

(* no auxiliary data (external_df=None, --external omitted), or auxiliary   *)
(* data as read by pd.read_csv: the default index                           *)
AuxSets ==
    {External([columns |-> {"q1", "q2"}, rows |-> r, index |-> RangeIndex(Len(r))]) :
        r \in UNION {[1..n -> ReportAuxRows] : n \in 0..MaxAux}}
    \cup {External([columns |-> {"q1"}, rows |-> <<>>, index |-> <<>>])}
    \cup {NoExternal}

ReportQiChoices == {<<"q1", "q2">>, <<"q1", "zz">>}

KRequired == {None, Some(2, 1)}

LRequired == {None, Some(2, 1)}

TRequired == {None, Some(1, 2)}

ReidRequired == {None, Some(0, 1)}

Params ==
    [qi : {<<"q1", "q2">>}, sensitive : {"s"},
     k_required : KRequired, l_required : LRequired, l_method : {"distinct", "entropy"},
     t_required : TRequired, reid_required : ReidRequired,
     numeric_bins : {15}, dominance_threshold : {Some(9, 10)}, rare_threshold : {1},
     binning_method : {"fd"}, t_method : {"tvd"}]
    \cup
    [qi : {<<"q1", "q2">>}, sensitive : {"s"},
     k_required : KRequired, l_required : LRequired, l_method : {"bogus"},
     t_required : {None}, reid_required : {None},
     numeric_bins : {15}, dominance_threshold : {Some(9, 10)}, rare_threshold : {1},
     binning_method : {"fd"}, t_method : {"tvd"}]
    \cup
    [qi : {<<"q1", "q2">>}, sensitive : {"s"},
     k_required : {None}, l_required : {None}, l_method : {"distinct"},
     t_required : {None}, reid_required : {None},
     numeric_bins : {15}, dominance_threshold : {Some(9, 10)}, rare_threshold : {2},
     binning_method : {"fd"}, t_method : {"tvd"}]
    \cup
    [qi : {<<"q1", "zz">>}, sensitive : {"s"},
     k_required : KRequired, l_required : {None}, l_method : {"distinct", "bogus"},
     t_required : {None}, reid_required : {None},
     numeric_bins : {15}, dominance_threshold : {Some(9, 10)}, rare_threshold : {1},
     binning_method : {"fd"}, t_method : {"tvd"}]
    \cup
    [qi : {<<"q1", "q2">>}, sensitive : {"zz"},
     k_required : {Some(2, 1)}, l_required : {None}, l_method : {"distinct"},
     t_required : {None}, reid_required : {None},
     numeric_bins : {15}, dominance_threshold : {Some(9, 10)}, rare_threshold : {1},
     binning_method : {"fd"}, t_method : {"tvd"}]

CliArgs ==
    [qi : ReportQiChoices, sensitive : {"s", "zz"},
     k : {Some(5, 1)}, l : {Some(2, 1)}, l_method : {"entropy", "distinct"},
     t : {Some(2, 10)}, reid_probability : {Some(5, 100)}]

(* The fixture of tests/test_basic_metrics.py.  age_band 20-29, 30-39 and   *)
(* 99-99 are 1, 2, 3; zip 12345, 54321 and 00000 are 1, 2, 3; disease HIV,  *)
(* Flu and Cancer are 1, 2, 3.                                              *)
simple_df ==
    << [q1 |-> 1, q2 |-> 1, s |-> 1], [q1 |-> 1, q2 |-> 1, s |-> 2],
       [q1 |-> 2, q2 |-> 2, s |-> 1], [q1 |-> 2, q2 |-> 2, s |-> 1],
       [q1 |-> 2, q2 |-> 2, s |-> 3] >>

simple_aux ==
    External([columns |-> {"q1", "q2"},
              rows |-> << [q1 |-> 1, q2 |-> 1], [q1 |-> 2, q2 |-> 2],
                          [q1 |-> 2, q2 |-> 2], [q1 |-> 3, q2 |-> 3] >>,
              index |-> RangeIndex(4)])

InitReport ==
    /\ \/ df \in ReportDataSets /\ s_dtype \in DTypes
       \/ df = simple_df /\ s_dtype = "object"
    /\ q_dtype = "object"
    /\ aux \in AuxSets \cup {simple_aux}
    /\ result = NoResult
    /\ log_txt = 0
    /\ out_file = FALSE
    /\ threads = <<>>

(* the effects of a call: its outcome, the lines appended to log.txt, the   *)
(* output file of the command line                                          *)
Deliver(r, args) ==
    /\ result' = Outcome(r.out, args, r.computed)
    /\ log_txt' = log_txt + r.log
    /\ aux' = IF "simulate_linkage_attack" \in r.computed THEN aux_df_after(aux) ELSE aux

DeliverCli(r, args) ==
    /\ result' = Outcome(r.out, args, r.computed)
    /\ log_txt' = log_txt + r.log
    /\ aux' = IF "simulate_linkage_attack" \in r.computed THEN aux_df_after(aux) ELSE aux
    /\ out_file' = (out_file \/ r.wrote)

FullReportCall ==
    /\ result.op = "none"
    /\ \E p \in Params :
          Deliver(full_report(df, p, aux, 0), [p |-> p, external_df |-> aux])
    /\ UNCHANGED <<threads, df, s_dtype, q_dtype, out_file>>

SimulateLinkageAttackCall ==
    /\ result.op = "none"
    /\ aux.given
    /\ \E qi_cols \in QiChoices :
          result' = Outcome(simulate_linkage_attack(df, aux, qi_cols), [qi |-> qi_cols], {})
    /\ aux' = aux_df_after(aux)
    /\ UNCHANGED <<threads, df, s_dtype, q_dtype, log_txt, out_file>>

CliMainCall ==
    /\ result.op = "none"
    /\ \E args \in CliArgs :
          DeliverCli(cli_main(df, aux, args), [args |-> args, external_df |-> aux])
    /\ UNCHANGED <<threads, df, s_dtype, q_dtype>>

NextReport == FullReportCall \/ SimulateLinkageAttackCall \/ CliMainCall

SpecReport == InitReport /\ [][NextReport]_vars

----------------------------------------------------------------------------
(* The analyzers on every ordering of the rows of a dataset *)

OrderRows == [q1 : QIVals, q2 : {1}, s : SensVals]

OrderDataSets == UNION {[1..n -> OrderRows] : n \in 0..MaxRows}

InitOrder ==
    /\ df \in OrderDataSets
    /\ s_dtype \in DTypes
    /\ q_dtype = "object"
    /\ aux = NoExternal
    /\ result = NoResult
    /\ log_txt = 0
    /\ out_file = FALSE
    /\ threads = <<>>

NextOrder == KAnonymityCall \/ LDiversityCall \/ TClosenessCall

SpecOrder == InitOrder /\ [][NextOrder]_vars

----------------------------------------------------------------------------
(* The linkage attack on auxiliary data with any index: labels that repeat, *)
(* are out of order or do not start at 0, as a DataFrame that was filtered, *)
(* sampled or concatenated carries them                                     *)

MaxAuxIndexed == 2

LinkRows == [q1 : QIVals, q2 : {1}, s : {1}]

LinkDataSets == UNION {[1..n -> LinkRows] : n \in 0..MaxRows}

IndexedAuxSets ==
    UNION {{External([columns |-> {"q1", "q2"}, rows |-> r, index |-> ix]) :
                r \in [1..n -> ReportAuxRows], ix \in [1..n -> 0..(MaxAuxIndexed - 1)]} :
            n \in 0..MaxAuxIndexed}

InitLinkage ==
    /\ df \in LinkDataSets
    /\ s_dtype = "object"
    /\ q_dtype = "object"
    /\ aux \in IndexedAuxSets
    /\ result = NoResult
    /\ log_txt = 0
    /\ out_file = FALSE
    /\ threads = <<>>

NextLinkage == SimulateLinkageAttackCall

SpecLinkage == InitLinkage /\ [][NextLinkage]_vars

----------------------------------------------------------------------------
(* The behaviour patterns of a report: q1 with two values and a missing    *)
(* one, q1 and s of either dtype, a dominance threshold that a class can    *)
(* meet exactly, and a correlation computation that may raise               *)

PatternRows == [q1 : {NaN, 1, 2}, q2 : {1}, s : SensVals]

PatternDataSets == UNION {[1..n -> PatternRows] : n \in 0..MaxRows}

DominanceThresholds == {Some(1, 2), Some(9, 10)}

PatternParams ==
    [qi : {<<"q1", "q2">>}, sensitive : {"s"},
     k_required : {None}, l_required : {None}, l_method : {"distinct"},
     t_required : {None}, reid_required : {None},
     numeric_bins : {15}, dominance_threshold : DominanceThresholds, rare_threshold : {1},
     binning_method : {"fd"}, t_method : {"tvd"}]

PatternCalls ==
    [p : PatternParams, fault : {0}]
    \cup [p : {q \in PatternParams : q.dominance_threshold = Some(1, 2)}, fault : {1, 2}]

InitPatterns ==
    /\ df \in PatternDataSets
    /\ s_dtype \in DTypes
    /\ q_dtype \in DTypes
    /\ aux = NoExternal
    /\ result = NoResult
    /\ log_txt = 0
    /\ out_file = FALSE
    /\ threads = <<>>

BehaviourPatternsCall ==
    /\ result.op = "none"
    /\ \E c \in PatternCalls :
          Deliver(full_report(df, c.p, aux, c.fault),
                  [p |-> c.p, external_df |-> aux, fault |-> c.fault])
    /\ UNCHANGED <<threads, df, s_dtype, q_dtype, out_file>>

NextPatterns == BehaviourPatternsCall

SpecPatterns == InitPatterns /\ [][NextPatterns]_vars

----------------------------------------------------------------------------
(* The threshold advisor on datasets around the sizes 1,000 and 10,000 and  *)
(* around 10 distinct sensitive values                                      *)

RowCounts == {0, 1, 999, 1000, 1001, 9999, 10000, 10001}

DistinctCounts == {1, 10, 11, 12}

(* n rows whose sensitive values cycle through d values; the first row's    *)
(* value is missing when with_nan                                           *)
SizedDataSet(n, d, with_nan) ==
    [i \in 1..n |-> [q1 |-> 1, q2 |-> 1,
                     s |-> IF with_nan /\ i = 1 THEN NaN ELSE (i % d) + 1]]

SizedDataSets ==
    {SizedDataSet(n, d, with_nan) : n \in RowCounts, d \in DistinctCounts, with_nan \in BOOLEAN}

InitSized ==
    /\ df \in SizedDataSets
    /\ s_dtype \in DTypes
    /\ q_dtype = "object"
    /\ aux = NoExternal
    /\ result = NoResult
    /\ log_txt = 0
    /\ out_file = FALSE
    /\ threads = <<>>

SuggestThresholdsCall ==
    /\ result.op = "none"
    /\ \E qi_cols \in {<<"q1">>, <<"q1", "zz">>}, sensitive_col \in {"s", "zz"} :
          result' = Outcome(suggest_thresholds(df, qi_cols, sensitive_col),
                            [qi |-> qi_cols, sensitive |-> sensitive_col], {})
    /\ UNCHANGED <<threads, df, s_dtype, q_dtype, aux, log_txt, out_file>>

NextSized == SuggestThresholdsCall

SpecSized == InitSized /\ [][NextSized]_vars

----------------------------------------------------------------------------
(* One run of the validator agent, each threshold omitted, zero or positive *)

AgentThresholds == {None, Some(0, 1), Some(2, 1)}

AgentArgs ==
    [qi_cols : {<<"q1", "q2">>}, sensitive_col : {"s"},
     k_required : AgentThresholds, l_required : AgentThresholds, l_method : {"distinct"},
     t_required : {None, Some(0, 1), Some(1, 2)}, reid_required : {None, Some(0, 1)},
     log_event : {FALSE}]
    \cup
    [qi_cols : {<<>>, <<"q1", "zz">>}, sensitive_col : {"", "zz"},
     k_required : {None}, l_required : {None}, l_method : {"entropy"},
     t_required : {None}, reid_required : {None}, log_event : {TRUE}]

AgentAuxSets ==
    {NoExternal,
     External([columns |-> {"q1", "q2"}, rows |-> <<[q1 |-> 1, q2 |-> 1]>>,
               index |-> RangeIndex(1)])}

InitAgent ==
    /\ df \in LinkDataSets
    /\ s_dtype \in DTypes
    /\ q_dtype = "object"
    /\ aux \in AgentAuxSets
    /\ result = NoResult
    /\ log_txt = 0
    /\ out_file = FALSE
    /\ threads = <<>>

ValidatorAgentRunCall ==
    /\ result.op = "none"
    /\ \E a \in AgentArgs :
          Deliver(ValidatorAgent_run(df, aux, a), [a |-> a, external_df |-> aux])
    /\ UNCHANGED <<threads, df, s_dtype, q_dtype, out_file>>

NextAgent == ValidatorAgentRunCall

SpecAgent == InitAgent /\ [][NextAgent]_vars

----------------------------------------------------------------------------
(* Any sequence of calls of the six operations on one validator and one     *)
(* auxiliary frame                                                          *)

MaxLogged == 2

EngineParams ==
    [qi : {<<"q1", "q2">>, <<"q1", "zz">>}, sensitive : {"s"},
     k_required : {Some(2, 1)}, l_required : {None}, l_method : {"entropy"},
     t_required : {None}, reid_required : {Some(0, 1)},
     numeric_bins : {15}, dominance_threshold : {Some(9, 10)}, rare_threshold : {1},
     binning_method : {"fd"}, t_method : {"tvd"}]

EngineAuxSets ==
    {NoExternal,
     External([columns |-> {"q1", "q2"}, rows |-> <<[q1 |-> 1, q2 |-> 1]>>,
               index |-> <<1>>]),
     External([columns |-> {"q1", "q2"},
               rows |-> <<[q1 |-> 1, q2 |-> 1], [q1 |-> NaN, q2 |-> 1]>>,
               index |-> RangeIndex(2)])}

InitEngine ==
    /\ df \in LinkDataSets
    /\ s_dtype \in DTypes
    /\ q_dtype = "object"
    /\ aux \in EngineAuxSets
    /\ result = NoResult
    /\ log_txt = 0
    /\ out_file = FALSE
    /\ threads = <<>>

(* full_report on a validator that is called again and again: the log is    *)
(* followed for MaxLogged calls                                             *)
EngineReportCall ==
    /\ result.op = "none"
    /\ log_txt < MaxLogged
    /\ \E p \in EngineParams :
          Deliver(full_report(df, p, aux, 0), [p |-> p, external_df |-> aux])
    /\ UNCHANGED <<threads, df, s_dtype, q_dtype, out_file>>

NextEngine ==
    \/ KAnonymityCall
    \/ LDiversityCall
    \/ TClosenessCall
    \/ SuggestThresholdsCall
    \/ SimulateLinkageAttackCall
    \/ EngineReportCall
    \/ Discard

SpecEngine == InitEngine /\ [][NextEngine]_vars

----------------------------------------------------------------------------
(* Two threads that call full_report on the same validator.  The frame of a *)
(* call holds its local variables (suggested, krep, lrep, trep and the      *)
(* rest); self.df, the auxiliary frame and log.txt are shared.              *)

Threads == {1, 2}

ThreadParams ==
    [qi : {<<"q1", "q2">>}, sensitive : {"s"},
     k_required : {Some(2, 1)}, l_required : {None}, l_method : {"distinct"},
     t_required : {None}, reid_required : {None},
     numeric_bins : {15}, dominance_threshold : {Some(9, 10)}, rare_threshold : {1},
     binning_method : {"fd"}, t_method : {"tvd"}]
    \cup
    [qi : {<<"q1", "q2">>}, sensitive : {"s", "zz"},
     k_required : {None}, l_required : {Some(2, 1)}, l_method : {"entropy"},
     t_required : {Some(1, 2)}, reid_required : {Some(0, 1)},
     numeric_bins : {15}, dominance_threshold : {Some(9, 10)}, rare_threshold : {1},
     binning_method : {"fd"}, t_method : {"tvd"}]

IdleFrame == [pc |-> "idle", p |-> <<>>, suggested |-> <<>>, krep |-> <<>>, lrep |-> <<>>,
              trep |-> <<>>, ret |-> <<>>]

InitThreads ==
    /\ df \in LinkDataSets
    /\ s_dtype \in DTypes
    /\ q_dtype = "object"
    /\ aux \in AgentAuxSets
    /\ result = NoResult
    /\ log_txt = 0
    /\ out_file = FALSE
    /\ threads = [tid \in Threads |-> IdleFrame]

(* a thread calls full_report with the keyword arguments p *)
Invoke(tid) ==
    /\ threads[tid].pc = "idle"
    /\ \E p \in ThreadParams :
          threads' = [threads EXCEPT ![tid] = [IdleFrame EXCEPT !.pc = "analyze", !.p = p]]
    /\ UNCHANGED <<df, s_dtype, q_dtype, aux, result, log_txt, out_file>>

(* lines 286-349: the suggestions and the three analyzers, into locals; a   *)
(* KeyError of suggest_thresholds ends the call                             *)
analyzed(frame, suggested, k, l, t) ==
    IF suggested.status # "ok"
    THEN [frame EXCEPT !.pc = "done",
                       !.ret = Raised("full_report", "KeyError")]
    ELSE [frame EXCEPT !.pc = "log", !.suggested = suggested,
                       !.krep = k, !.lrep = l, !.trep = t]

Analyze(tid) ==
    /\ threads[tid].pc = "analyze"
    /\ threads' = [threads EXCEPT ![tid] =
          analyzed(threads[tid],
                   suggest_thresholds(df, threads[tid].p.qi, threads[tid].p.sensitive),
                   k_anonymity(df, threads[tid].p.qi),
                   l_diversity(df, threads[tid].p.qi, threads[tid].p.sensitive,
                               threads[tid].p.l_method),
                   t_closeness(df, threads[tid].p.qi, threads[tid].p.sensitive,
                               threads[tid].p.numeric_bins, threads[tid].p.binning_method,
                               threads[tid].p.t_method))]
    /\ UNCHANGED <<df, s_dtype, q_dtype, aux, result, log_txt, out_file>>

(* lines 351-356: the debug lines of the call are appended to log.txt *)
WriteLog(tid) ==
    /\ threads[tid].pc = "log"
    /\ log_txt' = log_txt + 1
    /\ threads' = [threads EXCEPT ![tid].pc = "finish"]
    /\ UNCHANGED <<df, s_dtype, q_dtype, aux, result, out_file>>

(* lines 357-456: the flags, the attack, the behaviour patterns, the return *)
Finish(tid) ==
    /\ threads[tid].pc = "finish"
    /\ threads' = [threads EXCEPT ![tid].pc = "done",
                                  ![tid].ret =
          run_analyzers(df, threads[tid].p, aux, threads[tid].suggested,
                        threads[tid].krep, threads[tid].lrep, threads[tid].trep,
                        simulate_linkage_attack(df, aux, threads[tid].p.qi), 0).out]
    /\ aux' = aux_df_after(aux)
    /\ UNCHANGED <<df, s_dtype, q_dtype, result, log_txt, out_file>>

InvokeStep == \E tid \in Threads : Invoke(tid)

AnalyzeStep == \E tid \in Threads : Analyze(tid)

WriteLogStep == \E tid \in Threads : WriteLog(tid)

FinishStep == \E tid \in Threads : Finish(tid)

NextThreads == InvokeStep \/ AnalyzeStep \/ WriteLogStep \/ FinishStep

SpecThreads == InitThreads /\ [][NextThreads]_vars

----------------------------------------------------------------------------
(* Properties *)

FixedKeys ==
    {"schema_version", "params", "suggested_thresholds", "data_summary", "k_anonymity",
     "l_diversity", "t_closeness", "risk_flags", "repair_suggestions", "behaviour_patterns"}

IsCall(op) == result.op = op

IsReport == result.op = "full_report" /\ result.status = "ok"

InSeq(x, s) == \E i \in DOMAIN s : s[i] = x

ColumnsMissing(qi_cols, sensitive_col, external_df) ==
    \/ ~HasColumns(Columns, qi_cols)
    \/ sensitive_col \notin Columns
    \/ (external_df.given /\ ~HasColumns(external_df.columns, qi_cols))

(* C1: a call of full_report whose columns all exist returns a report,      *)
(* whichever analyzers raise and whichever thresholds are supplied; the     *)
(* sub-report of an analyzer that raised is the null placeholder and the    *)
(* sub-report of every other analyzer is the value that analyzer computed.  *)
C1_FullReportAlwaysReturns ==
    (IsCall("full_report")
     /\ ~ColumnsMissing(result.args.p.qi, result.args.p.sensitive, result.args.external_df))
    => /\ result.status = "ok"
       /\ LET p == result.args.p
              k == k_anonymity(df, p.qi)
              l == l_diversity(df, p.qi, p.sensitive, p.l_method)
              t == t_closeness(df, p.qi, p.sensitive, p.numeric_bins, p.binning_method,
                               p.t_method)
          IN  /\ IF k.status = "ok" THEN result.value.k_anonymity = k.value
                 ELSE ~result.value.k_anonymity.k_min.given
              /\ IF l.status = "ok" THEN result.value.l_diversity = l.value
                 ELSE ~result.value.l_diversity.l_min.given
              /\ IF t.status = "ok" THEN result.value.t_closeness = t.value
                 ELSE ~result.value.t_closeness.t_max.given

(* C2: every returned report has exactly the fixed top-level keys, plus     *)
(* attack_simulation exactly when an external_df was supplied, whichever    *)
(* metrics failed.                                                          *)
C2_FixedKeySet ==
    IsReport =>
        DOMAIN result.value =
            FixedKeys \cup (IF result.args.external_df.given
                            THEN {"attack_simulation"} ELSE {})

(* a report with a failed metric and an attack simulation *)
C2_Witness ==
    /\ IsReport
    /\ Len(df) > 0
    /\ ~result.value.l_diversity.l_min.given
    /\ result.value.k_anonymity.k_min.given
    /\ result.args.external_df.given
    /\ "attack_simulation" \in DOMAIN result.value

RepairFor(flag) ==
    IF flag = "k-anonymity below threshold"
    THEN "Consider generalising or suppressing QIs"
    ELSE IF flag = "entropy l-diversity (effective) below threshold"
    THEN "Consider generalising QIs or grouping sensitive values to increase entropy."
    ELSE IF flag = "l-diversity (distinct) below threshold"
    THEN "Consider generalising QIs to increase diversity."
    ELSE IF flag = "t-closeness above threshold"
    THEN "Consider generalising QIs or binning sensitive variable differently."
    ELSE "Consider suppressing unique QI combinations or generalising QIs."

FlagRank(flag) ==
    IF flag = "k-anonymity below threshold" THEN 1
    ELSE IF flag = "entropy l-diversity (effective) below threshold" THEN 2
    ELSE IF flag = "l-diversity (distinct) below threshold" THEN 2
    ELSE IF flag = "t-closeness above threshold" THEN 3
    ELSE IF flag = "Re-identification probability too high" THEN 4
    ELSE 0

(* C3: in every report risk_flags and repair_suggestions have the same      *)
(* length, the i-th repair suggestion is the one that belongs to the i-th   *)
(* flag, and the flags appear in the order k-anonymity, l-diversity,        *)
(* t-closeness, re-identification.                                          *)
C3_FlagsPairedWithRepairs ==
    IsReport =>
        LET flags == result.value.risk_flags
            repairs == result.value.repair_suggestions
        IN  /\ Len(flags) = Len(repairs)
            /\ \A i \in DOMAIN flags :
                 /\ FlagRank(flags[i]) > 0
                 /\ i \in DOMAIN repairs /\ repairs[i] = RepairFor(flags[i])
            /\ \A i, j \in DOMAIN flags : i < j => FlagRank(flags[i]) < FlagRank(flags[j])

(* a report carrying all four flags *)
C3_Witness ==
    /\ IsReport
    /\ Len(result.value.risk_flags) = 4
    /\ Len(result.value.repair_suggestions) = 4

(* C4: a report carries the k flag exactly when k_required was supplied and *)
(* k_min < k_required, the t flag exactly when t_required was supplied and  *)
(* t_max > t_required, and the re-identification flag exactly when an       *)
(* auxiliary dataset and reid_required were supplied and reid_probability > *)
(* reid_required; equality and an omitted threshold never flag.             *)
C4_FlagIffStrictViolation ==
    IsReport =>
        LET p == result.args.p
            r == result.value
        IN  /\ InSeq("k-anonymity below threshold", r.risk_flags)
                 <=> (p.k_required.given /\ r.k_anonymity.k_min.given
                      /\ r.k_anonymity.k_min.n * p.k_required.d
                           < p.k_required.n * r.k_anonymity.k_min.d)
            /\ InSeq("t-closeness above threshold", r.risk_flags)
                 <=> (p.t_required.given /\ r.t_closeness.t_max.given
                      /\ r.t_closeness.t_max.n * p.t_required.d
                           > p.t_required.n * r.t_closeness.t_max.d)
            /\ InSeq("Re-identification probability too high", r.risk_flags)
                 <=> (result.args.external_df.given /\ p.reid_required.given
                      /\ r.attack_simulation.reid_probability.n * p.reid_required.d
                           > p.reid_required.n * r.attack_simulation.reid_probability.d)

(* k_min equal to k_required and unflagged, t_required omitted *)
C4_Witness ==
    /\ IsReport
    /\ Len(df) > 0
    /\ result.args.p.k_required.given
    /\ Eq(result.value.k_anonymity.k_min, result.args.p.k_required)
    /\ ~InSeq("k-anonymity below threshold", result.value.risk_flags)
    /\ ~result.args.p.t_required.given

(* C5: with l_required supplied, the l flag of a report is decided on       *)
(* entropy_effective_min when l_method is 'entropy' and on the distinct     *)
(* l_min otherwise.                                                         *)
C5_LFlagUsesMethodValue ==
    (IsReport /\ result.args.p.l_required.given) =>
        LET p == result.args.p
            r == result.value
            flagged == \/ InSeq("entropy l-diversity (effective) below threshold", r.risk_flags)
                       \/ InSeq("l-diversity (distinct) below threshold", r.risk_flags)
        IN  IF p.l_method = "entropy"
            THEN /\ flagged <=> Exp2Lt(r.l_diversity.entropy_effective_min.exp2, p.l_required)
                 /\ ~InSeq("l-diversity (distinct) below threshold", r.risk_flags)
            ELSE /\ flagged <=> (r.l_diversity.l_min.n * p.l_required.d
                                   < p.l_required.n * r.l_diversity.l_min.d)
                 /\ ~InSeq("entropy l-diversity (effective) below threshold", r.risk_flags)

(* entropy mode, no missing QI value, distinct l_min at the requirement,    *)
(* effective value below it: flagged *)
C5_Witness ==
    /\ IsReport
    /\ \A i \in DOMAIN df : df[i].q1 # NaN
    /\ result.args.p.l_required.given
    /\ result.args.p.l_method = "entropy"
    /\ ~Lt(result.value.l_diversity.l_min, result.args.p.l_required)
    /\ InSeq("entropy l-diversity (effective) below threshold", result.value.risk_flags)

(* C6: l_diversity called with a method other than 'distinct' and 'entropy' *)
(* raises and returns no report, for every dataset; the error is the        *)
(* invalid-argument error (ValueError) whenever the columns exist.          *)
C6_UnknownLMethodRaises ==
    (IsCall("l_diversity") /\ result.args.method \notin {"distinct", "entropy"})
    => /\ result.status = "raised"
       /\ result.value = <<>>
       /\ (HasColumns(Columns, result.args.qi) => result.exc = "ValueError")

(* the unknown method on the empty dataset *)
C6_Witness ==
    /\ IsCall("l_diversity")
    /\ result.args.method = "bogus"
    /\ Len(df) = 0
    /\ result.exc = "ValueError"

(* C7: t_closeness called with a t_method other than 'tvd' and 'emd'        *)
(* raises; it computes no distance for an unrecognized method name.         *)
C7_UnknownTMethodRaises ==
    (IsCall("t_closeness") /\ result.args.t_method \notin {"tvd", "emd"})
    => result.status = "raised"

(* C8: a validation call that names a QI or sensitive column absent from    *)
(* the dataset, or a QI column absent from the external dataset, fails      *)
(* before any analyzer has computed and before anything is written.         *)
C8_MissingColumnFailsBeforeComputation ==
    /\ (IsCall("full_report")
        /\ ColumnsMissing(result.args.p.qi, result.args.p.sensitive, result.args.external_df))
       => (result.status = "raised" /\ result.computed = {} /\ log_txt = 0 /\ ~out_file)
    /\ (IsCall("cli")
        /\ ColumnsMissing(result.args.args.qi, result.args.args.sensitive,
                          result.args.external_df))
       => (result.status = "raised" /\ result.computed = {} /\ log_txt = 0 /\ ~out_file)

HistSum(hist) == SumFn([sz \in DOMAIN hist |-> sz * hist[sz]], DOMAIN hist)

HistConsistent(v, n_rows) ==
    LET hist == v.eq_class_size_hist
    IN  /\ HistSum(hist) = n_rows
        /\ v.k_min.n \in DOMAIN hist
        /\ \A sz \in DOMAIN hist : v.k_min.n <= sz
        /\ v.k_min.n * v.k_avg.d <= v.k_avg.n
        /\ \E mx \in DOMAIN hist :
             /\ \A sz \in DOMAIN hist : sz <= mx
             /\ v.k_avg.n <= mx * v.k_avg.d

(* C9 as stated: for any dataset the size histogram sums (size x classes)   *)
(* to the row count, k_min is the smallest key of the histogram, and        *)
(* k_min <= k_avg <= the largest class size.                                *)
C9_HistogramConsistentAnyDataset ==
    (IsCall("k_anonymity") /\ result.status = "ok")
    => HistConsistent(result.value, Len(df))

(* C9 amended: the same for every non-empty dataset; for the empty dataset  *)
(* the histogram is empty, k_min = 0 and k_avg = 0.                         *)
C9_HistogramConsistent ==
    (IsCall("k_anonymity") /\ result.status = "ok")
    => IF Len(df) > 0
       THEN HistConsistent(result.value, Len(df))
       ELSE /\ DOMAIN result.value.eq_class_size_hist = {}
            /\ result.value.k_min.n = 0
            /\ result.value.k_avg.n = 0

(* classes of two different sizes *)
C9_Witness ==
    /\ IsCall("k_anonymity") /\ result.status = "ok"
    /\ DOMAIN result.value.eq_class_size_hist = {1, 2}
    /\ result.value.k_avg.n * 2 = 3 * result.value.k_avg.d

(* Two values of one QI column agree when both are missing or both are      *)
(* present and equal.                                                       *)
Agree(a, b) == (a = NaN /\ b = NaN) \/ (a # NaN /\ b # NaN /\ a = b)

SameClass(i, j, qi_cols) ==
    \A c \in DOMAIN qi_cols : Agree(df[i][qi_cols[c]], df[j][qi_cols[c]])

ClassSizeOf(i, qi_cols) == Cardinality({j \in DOMAIN df : SameClass(i, j, qi_cols)})

(* C10: k_anonymity counts every row, rows with missing QI values included, *)
(* in the class of the rows that agree with it on every QI column, missing  *)
(* agreeing only with missing in the same column: the histogram and k_min   *)
(* are those of that partition.                                             *)
C10_MissingIsDistinctCategory ==
    (IsCall("k_anonymity") /\ result.status = "ok")
    => LET qi_cols == result.args.qi
           hist == result.value.eq_class_size_hist
           sizes == {ClassSizeOf(i, qi_cols) : i \in DOMAIN df}
       IN  /\ DOMAIN hist = sizes
           /\ \A sz \in sizes :
                hist[sz] * sz = Cardinality({i \in DOMAIN df : ClassSizeOf(i, qi_cols) = sz})
           /\ (Len(df) > 0 => result.value.k_min.n = MinSet(sizes))

(* missing in q1 for two rows, missing in q2 for a third: classes 2 and 1 *)
C10_Witness ==
    /\ IsCall("k_anonymity") /\ result.status = "ok"
    /\ result.args.qi = <<"q1", "q2">>
    /\ \E i, j, k \in DOMAIN df :
         /\ i # j
         /\ df[i].q1 = NaN /\ df[i].q2 # NaN
         /\ df[j].q1 = NaN /\ df[j].q2 = df[i].q2
         /\ df[k].q1 # NaN /\ df[k].q2 = NaN
    /\ result.value.eq_class_size_hist = (1 :> 1) @@ (2 :> 1)

----------------------------------------------------------------------------
(* Row order *)

Permuted(rows, f) == [i \in DOMAIN rows |-> rows[f[i]]]

(* the partition of a dataset: for each QI tuple, the rows of its class and *)
(* how often each occurs                                                    *)
Partition(rows, qi_cols) ==
    LET grp == groupby(rows, qi_cols, FALSE)
    IN  [k \in DOMAIN grp |->
            [r \in {rows[i] : i \in grp[k]} |-> Cardinality({i \in grp[k] : rows[i] = r})]]

(* C11: the partition into equivalence classes and the k_anonymity,         *)
(* l_diversity and t_closeness outcomes are the same for every row          *)
(* permutation of the dataset the call was made on.                         *)
C11_RowOrderIrrelevant ==
    /\ (IsCall("k_anonymity") /\ HasColumns(Columns, result.args.qi)) =>
          LET part == Partition(df, result.args.qi)
          IN  \A f \in Permutations(DOMAIN df) :
                 Partition(Permuted(df, f), result.args.qi) = part
    /\ IsCall("k_anonymity") =>
          \A f \in Permutations(DOMAIN df) :
             Outcome(k_anonymity(Permuted(df, f), result.args.qi), result.args, {}) = result
    /\ IsCall("l_diversity") =>
          \A f \in Permutations(DOMAIN df) :
             Outcome(l_diversity(Permuted(df, f), result.args.qi, result.args.sensitive,
                                 result.args.method), result.args, {}) = result
    /\ IsCall("t_closeness") =>
          \A f \in Permutations(DOMAIN df) :
             Outcome(t_closeness(Permuted(df, f), result.args.qi, result.args.sensitive,
                                 result.args.numeric_bins, result.args.binning_method,
                                 result.args.t_method), result.args, {}) = result

(* an entropy report on a dataset whose first and last rows share a class   *)
(* that the middle row is not in                                            *)
C11_Witness ==
    /\ IsCall("l_diversity") /\ result.status = "ok"
    /\ result.args.method = "entropy"
    /\ result.args.qi = <<"q1">>
    /\ Len(df) = 3
    /\ df[1].q1 = df[3].q1 /\ df[1].q1 # df[2].q1
    /\ df[1].s # df[3].s

----------------------------------------------------------------------------
(* Distinct l-diversity *)

IsInteger(x) == x.d # 0 /\ x.n % x.d = 0

(* the number of distinct sensitive values, the missing value being one of  *)
(* them, in the class of row i                                              *)
DistinctIn(i, qi_cols, sensitive_col) ==
    Cardinality({df[j][sensitive_col] : j \in {j \in DOMAIN df : SameClass(i, j, qi_cols)}})

(* C12 as stated: for every non-empty dataset, l_diversity 'distinct'       *)
(* returns l_min and l_avg that are both integers and both >= 1.            *)
C12_DistinctLIntegers ==
    (IsCall("l_diversity") /\ result.status = "ok" /\ result.args.method = "distinct"
     /\ Len(df) > 0)
    => /\ IsInteger(result.value.l_min) /\ ~Lt(result.value.l_min, Some(1, 1))
       /\ IsInteger(result.value.l_avg) /\ ~Lt(result.value.l_avg, Some(1, 1))

(* C12 amended: for every non-empty dataset, l_min is an integer >= 1, the  *)
(* smallest number of distinct sensitive values of a class with a missing   *)
(* value counted as one value, and l_avg is a number with                   *)
(* 1 <= l_min <= l_avg that need not be an integer.                         *)
C12_DistinctLAtLeastOne ==
    (IsCall("l_diversity") /\ result.status = "ok" /\ result.args.method = "distinct"
     /\ Len(df) > 0)
    => /\ IsInteger(result.value.l_min)
       /\ ~Lt(result.value.l_min, Some(1, 1))
       /\ \A i \in DOMAIN df :
            result.value.l_min.n
               <= DistinctIn(i, result.args.qi, result.args.sensitive) * result.value.l_min.d
       /\ \E i \in DOMAIN df :
            Eq(result.value.l_min,
               Some(DistinctIn(i, result.args.qi, result.args.sensitive), 1))
       /\ ~Lt(result.value.l_avg, result.value.l_min)

(* a class whose only sensitive value is the missing one, beside a class of *)
(* two values: l_min = 1 and l_avg = 3/2                                    *)
C12_Witness ==
    /\ IsCall("l_diversity") /\ result.status = "ok" /\ result.args.method = "distinct"
    /\ result.args.qi = <<"q1">>
    /\ \E i \in DOMAIN df : \A j \in DOMAIN df : df[j].q1 = df[i].q1 => df[j].s = NaN
    /\ Eq(result.value.l_min, Some(1, 1))
    /\ Eq(result.value.l_avg, Some(3, 2))

----------------------------------------------------------------------------
(* Entropy l-diversity against distinct l-diversity *)

(* 2^H(p) <= x *)
Exp2Leq(p, x) ==
    LET n == ProfileN(p)
    IN  Pow(n * x.d, n) <= Pow(x.n, n) * ProfilePi(p)

(* 2^(mean of H(p) over the bag of profiles) <= x: with m profiles and L a  *)
(* common multiple of their sums, product of (n^n / Pi)^(L/n) <= x^(m * L)  *)
Exp2MeanLeq(bag, x) ==
    LET P == DOMAIN bag
        m == SumFn(bag, P)
        L == ProdFn([p \in P |-> ProfileN(p)], P)
        num == ProdFn([p \in P |-> Pow(Pow(ProfileN(p), L), bag[p])], P)
        den == ProdFn([p \in P |-> Pow(Pow(ProfilePi(p), L \div ProfileN(p)), bag[p])], P)
    IN  num * Pow(x.d, m * L) <= Pow(x.n, m * L) * den

(* C13: for any dataset and grouping, entropy_effective_min <= l_min and    *)
(* entropy_effective_avg <= l_avg in the report of l_diversity 'entropy'.   *)
C13_EffectiveAtMostDistinct ==
    (IsCall("l_diversity") /\ result.status = "ok" /\ result.args.method = "entropy")
    => /\ Exp2Leq(result.value.entropy_effective_min.exp2, result.value.l_min)
       /\ Exp2MeanLeq(result.value.entropy_effective_avg.exp2_mean, result.value.l_avg)

----------------------------------------------------------------------------
(* t-closeness *)

InUnitInterval(x) == ~Lt(x, Some(0, 1)) /\ ~Gt(x, Some(1, 1))

(* C14: t_closeness with the TVD method returns a report with t_max and     *)
(* t_avg in [0, 1], for a categorical and for a numeric sensitive column,   *)
(* for every numeric_bins >= 1 and for binning 'fd' and 'quantile'.         *)
C14_TvdWithinUnitInterval ==
    (IsCall("t_closeness") /\ HasColumns(Columns, result.args.qi)
     /\ result.args.t_method = "tvd" /\ result.args.numeric_bins >= 1
     /\ result.args.binning_method \in {"fd", "quantile"})
    => /\ result.status = "ok"
       /\ InUnitInterval(result.value.t_max)
       /\ InUnitInterval(result.value.t_avg)

(* C15: when every value of the sensitive column is missing, t_closeness    *)
(* returns t_max = 0 and t_avg = 0, whether the column is numeric or        *)
(* categorical and whatever the binning method and the distance method.     *)
C15_AllMissingIsZero ==
    (IsCall("t_closeness") /\ HasColumns(Columns, result.args.qi)
     /\ \A i \in DOMAIN df : df[i][result.args.sensitive] = NaN)
    => /\ result.status = "ok"
       /\ Eq(result.value.t_max, Some(0, 1))
       /\ Eq(result.value.t_avg, Some(0, 1))

(* a numeric column with no value, two classes, quantile binning and the    *)
(* Wasserstein distance requested                                           *)
C15_Witness ==
    /\ IsCall("t_closeness") /\ result.status = "ok"
    /\ s_dtype = "float64"
    /\ result.args.binning_method = "quantile" /\ result.args.t_method = "emd"
    /\ Len(df) >= 2
    /\ \A i \in DOMAIN df : df[i].s = NaN
    /\ \E i, j \in DOMAIN df : df[i].q1 # df[j].q1
    /\ Eq(result.value.t_max, Some(0, 1))

(* C16: the t-closeness report carries bin edges only on the numeric/TVD    *)
(* path: bins is null whenever the sensitive column is categorical and      *)
(* whenever the distance method is 'emd'.                                   *)
C16_BinsOnlyNumericTvd ==
    (IsCall("t_closeness") /\ result.status = "ok"
     /\ (~is_numeric_dtype(result.args.sensitive) \/ result.args.t_method = "emd"))
    => ~result.value.bins.given

----------------------------------------------------------------------------
(* Linkage attack *)

(* the number of dataset rows that agree with the auxiliary row r on the QI *)
(* columns, missing agreeing with missing as in DataFrame.merge             *)
MatchCount(r, qi_cols) ==
    Cardinality({i \in DOMAIN df : \A c \in DOMAIN qi_cols : df[i][qi_cols[c]] = r[qi_cols[c]]})

(* C17: for every dataset, auxiliary dataset and QI list whose columns      *)
(* exist, simulate_linkage_attack returns unique + multiple + none =        *)
(* records_tested, the number of auxiliary rows; reid_probability is        *)
(* unique / records_tested, lies in [0, 1], and is 0 when the auxiliary     *)
(* dataset is empty.                                                        *)
C17_LinkageCountsAddUp ==
    (IsCall("simulate_linkage_attack")
     /\ HasColumns(aux.columns, result.args.qi) /\ HasColumns(Columns, result.args.qi))
    => /\ result.status = "ok"
       /\ result.value.records_tested = Len(aux.rows)
       /\ result.value.unique + result.value.multiple + result.value.none
             = result.value.records_tested
       /\ InUnitInterval(result.value.reid_probability)
       /\ IF Len(aux.rows) = 0
          THEN Eq(result.value.reid_probability, Some(0, 1))
          ELSE Eq(result.value.reid_probability, Some(result.value.unique, Len(aux.rows)))

(* C18: flagged holds exactly the auxiliary rows that match exactly one     *)
(* dataset row on the QI columns, each with its own field values and no     *)
(* other field, so the number of flagged rows is unique; a row with zero or *)
(* several matches is never flagged.                                        *)
C18_FlaggedAreUniqueMatches ==
    (IsCall("simulate_linkage_attack") /\ result.status = "ok")
    => LET flagged == result.value.flagged
           qi_cols == result.args.qi
       IN  /\ Len(flagged) = result.value.unique
           /\ \A h \in DOMAIN flagged :
                /\ DOMAIN flagged[h] = aux.columns
                /\ MatchCount(flagged[h], qi_cols) = 1
           /\ \A a \in DOMAIN aux.rows :
                MatchCount(aux.rows[a], qi_cols) = 1 =>
                   Cardinality({h \in DOMAIN flagged : flagged[h] = aux.rows[a]})
                      = Cardinality({b \in DOMAIN aux.rows : aux.rows[b] = aux.rows[a]})

(* C19: on the fixture dataset (classes of size 2 and 3) and its four       *)
(* auxiliary rows, simulate_linkage_attack reports records_tested = 4 with  *)
(* unique >= 1, multiple >= 1 and none >= 1, and full_report with that      *)
(* auxiliary dataset and reid_required = 0.0 carries the re-identification  *)
(* risk flag.                                                               *)
C19_FixtureLinkage ==
    (df = simple_df /\ aux = simple_aux) =>
        /\ (IsCall("simulate_linkage_attack") /\ result.args.qi = <<"q1", "q2">>)
           => /\ result.status = "ok"
              /\ result.value.records_tested = 4
              /\ result.value.unique >= 1
              /\ result.value.multiple >= 1
              /\ result.value.none >= 1
        /\ (IsCall("full_report") /\ result.args.p.qi = <<"q1", "q2">>
            /\ result.args.p.sensitive = "s"
            /\ result.args.p.l_method \in {"distinct", "entropy"}
            /\ result.args.p.reid_required = Some(0, 1))
           => /\ result.status = "ok"
              /\ InSeq("Re-identification probability too high", result.value.risk_flags)

----------------------------------------------------------------------------
(* Behaviour patterns *)

(* C20: rare_combinations has exactly one entry for each equivalence class  *)
(* of size <= rare_threshold, with count the size of the class and          *)
(* qi_values its QI tuple, and no entry for a larger class; every count is  *)
(* <= rare_threshold.                                                       *)
C20_RareCombinationsExact ==
    IsReport =>
        LET rare == result.value.behaviour_patterns.rare_combinations
            qi_cols == result.args.p.qi
            th == result.args.p.rare_threshold
        IN  /\ \A e \in DOMAIN rare :
                 /\ rare[e].count <= th
                 /\ \E i \in DOMAIN df :
                      /\ Key(df[i], qi_cols) = rare[e].qi_values
                      /\ ClassSizeOf(i, qi_cols) = rare[e].count
            /\ \A i \in DOMAIN df :
                 Cardinality({e \in DOMAIN rare : rare[e].qi_values = Key(df[i], qi_cols)})
                    = IF ClassSizeOf(i, qi_cols) <= th THEN 1 ELSE 0

(* threshold 1: the class with a missing QI value has one row and is       *)
(* reported with its tuple, the class of two rows is not                    *)
C20_Witness ==
    /\ IsReport
    /\ result.args.p.rare_threshold = 1
    /\ Len(df) = 3
    /\ Cardinality({i \in DOMAIN df : df[i].q1 = NaN}) = 1
    /\ result.value.behaviour_patterns.rare_combinations
          = <<[qi_values |-> <<NaN, 1>>, count |-> 1]>>

(* the count of the most frequent sensitive value, missing included, among  *)
(* the rows of the class of row i                                           *)
ModeCount(i, qi_cols, sensitive_col) ==
    MaxSet({Cardinality({j \in DOMAIN df : /\ SameClass(i, j, qi_cols)
                                           /\ Agree(df[j][sensitive_col],
                                                    df[m][sensitive_col])}) :
            m \in {j \in DOMAIN df : SameClass(i, j, qi_cols)}})

(* C21: sensitive_skew has an entry for an equivalence class if and only if *)
(* the share of the class's most frequent sensitive value, a missing value  *)
(* counted as a value, is strictly greater than dominance_threshold; the    *)
(* entry's frequency is that share, and a share equal to the threshold is   *)
(* not reported.                                                            *)
C21_SkewIffStrictlyDominant ==
    IsReport =>
        LET skew == result.value.behaviour_patterns.sensitive_skew
            qi_cols == result.args.p.qi
            s == result.args.p.sensitive
            th == result.args.p.dominance_threshold
        IN  /\ \A e \in DOMAIN skew :
                 /\ Gt(skew[e].frequency, th)
                 /\ \E i \in DOMAIN df :
                      /\ Key(df[i], qi_cols) = skew[e].qi_values
                      /\ Eq(skew[e].frequency,
                            Some(ModeCount(i, qi_cols, s), ClassSizeOf(i, qi_cols)))
            /\ \A i \in DOMAIN df :
                 Cardinality({e \in DOMAIN skew : skew[e].qi_values = Key(df[i], qi_cols)})
                    = IF ModeCount(i, qi_cols, s) * th.d > th.n * ClassSizeOf(i, qi_cols)
                      THEN 1 ELSE 0

(* threshold 1/2: a class of two rows with two sensitive values has share   *)
(* 1/2 and is not reported; the class of one row whose sensitive value is   *)
(* missing has share 1 and is reported                                      *)
C21_Witness ==
    /\ IsReport
    /\ result.args.p.dominance_threshold = Some(1, 2)
    /\ df = << [q1 |-> 1, q2 |-> 1, s |-> 1], [q1 |-> 1, q2 |-> 1, s |-> 2],
               [q1 |-> NaN, q2 |-> 1, s |-> NaN] >>
    /\ result.value.behaviour_patterns.sensitive_skew
          = <<[qi_values |-> <<NaN, 1>>, dominant_sensitive |-> "nan",
               frequency |-> Some(1, 1)]>>

(* the call of full_report in which the correlation computation raised: the *)
(* library raises for the QI column at position fault, and is called for it *)
CorrelationRaised ==
    /\ IsCall("full_report")
    /\ result.args.fault \in DOMAIN result.args.p.qi
    /\ (~is_numeric_dtype(result.args.p.sensitive)
        \/ is_numeric_dtype(result.args.p.qi[result.args.fault]))

(* C22: if the correlation/association computation raises for a QI column,  *)
(* full_report does not raise; behaviour_patterns holds the                 *)
(* rare_combinations and sensitive_skew lists of the call without the       *)
(* failure and exactly one more key, the error string; every other key of   *)
(* the report is what it is without the failure.                            *)
C22_CorrelationErrorContained ==
    CorrelationRaised =>
        /\ result.status = "ok"
        /\ LET ref == full_report(df, result.args.p, result.args.external_df, 0).out.value
               bp == result.value.behaviour_patterns
           IN  /\ DOMAIN bp = DOMAIN ref.behaviour_patterns \cup {"correlation_error"}
               /\ "correlation_error" \notin DOMAIN ref.behaviour_patterns
               /\ bp.correlation_error = "Exception"
               /\ bp.rare_combinations = ref.behaviour_patterns.rare_combinations
               /\ bp.sensitive_skew = ref.behaviour_patterns.sensitive_skew
               /\ DOMAIN result.value = DOMAIN ref
               /\ \A key \in DOMAIN ref \ {"behaviour_patterns"} : result.value[key] = ref[key]

(* the computation raises at q2 after q1 gave an association entry; a rare  *)
(* class and a skewed class were found before                               *)
C22_Witness ==
    /\ CorrelationRaised
    /\ result.status = "ok"
    /\ result.args.fault = 2
    /\ s_dtype = "object"
    /\ Len(result.value.behaviour_patterns.qi_sensitive_correlation) = 1
    /\ result.value.behaviour_patterns.rare_combinations # <<>>
    /\ result.value.behaviour_patterns.sensitive_skew # <<>>
    /\ "correlation_error" \in DOMAIN result.value.behaviour_patterns

(* the distinct non-missing values of a column *)
DistinctValues(col) == {df[i][col] : i \in DOMAIN df} \ {NaN}

Requirement(explicit, suggested) == IF explicit = None THEN suggested ELSE explicit

(* C24: in ValidatorAgent.run, independently for k, l, t and the            *)
(* re-identification probability, the requirement passed to full_report is  *)
(* the caller's explicit value whenever one is given, 0 included, and the   *)
(* suggested value only when the caller omits it; the report is checked     *)
(* against that requirement.                                                *)
C24_SuggestedOnlyWhenOmitted ==
    (IsCall("run") /\ result.status = "ok") =>
        LET a == result.args.a
            report == result.value.validation_result
            sg == report.suggested_thresholds
        IN  /\ report.params.k_required = Requirement(a.k_required, Some(sg.k, 1))
            /\ report.params.l_required = Requirement(a.l_required, Some(sg.l, 1))
            /\ report.params.t_required = Requirement(a.t_required, sg.t)
            /\ report.params.reid_required
                  = Requirement(a.reid_required, sg.reid_probability)
            /\ InSeq("k-anonymity below threshold", report.risk_flags)
                  <=> Lt(report.k_anonymity.k_min,
                         Requirement(a.k_required, Some(sg.k, 1)))

(* k given as 0 and l omitted: the report is checked against k = 0, not the *)
(* suggested 5, and against the suggested l = 2                             *)
C24_Witness ==
    /\ IsCall("run")
    /\ result.status = "ok"
    /\ result.args.a.k_required = Some(0, 1)
    /\ result.args.a.l_required = None
    /\ result.value.validation_result.suggested_thresholds.k = 5
    /\ result.value.validation_result.params.k_required = Some(0, 1)
    /\ result.value.validation_result.params.l_required = Some(2, 1)
    /\ result.value.validation_result.k_anonymity.k_min = Some(1, 1)
    /\ ~InSeq("k-anonymity below threshold", result.value.validation_result.risk_flags)
    /\ InSeq("l-diversity (distinct) below threshold",
             result.value.validation_result.risk_flags)

(* C25: no operation of the engine (k_anonymity, l_diversity, t_closeness,  *)
(* suggest_thresholds, simulate_linkage_attack, full_report) changes the    *)
(* caller's dataset or the auxiliary dataset: after every call, in any      *)
(* sequence of calls, both hold the rows, columns, index and dtypes they    *)
(* held before.                                                             *)
C25_DatasetsNeverMutated ==
    [][/\ df' = df
       /\ s_dtype' = s_dtype
       /\ q_dtype' = q_dtype
       /\ aux' = aux]_vars

(* the linkage attack has returned on auxiliary data whose index is not the *)
(* default one, after two reports were made on the same validator           *)
C25_Witness ==
    /\ IsCall("simulate_linkage_attack")
    /\ result.status = "ok"
    /\ log_txt = 2
    /\ aux.given
    /\ aux.index = <<1>>
    /\ aux.columns = {"q1", "q2"}
    /\ Len(df) = 3

(* C26: nothing computed during a full_report call persists after it        *)
(* returns: the call writes no file and no shared state, so the state       *)
(* outside the returned report (the datasets, log.txt, the output file) is  *)
(* the same after the call as before it.                                    *)
C26_NothingPersistsAfterReport ==
    [][(result'.op = "full_report" /\ result'.status = "ok")
        => /\ log_txt' = log_txt
           /\ out_file' = out_file
           /\ df' = df
           /\ aux' = aux]_vars

(* every call that has returned in a thread returned what the same call     *)
(* returns when it runs alone                                               *)
ReturnsAsAlone ==
    \A tid \in DOMAIN threads :
        threads[tid].pc = "done"
        => threads[tid].ret = full_report(df, threads[tid].p, aux, 0).out

(* C27: concurrent calls on the same validator from several threads are     *)
(* safe without locking: every step of a call only reads the bound dataset  *)
(* and writes no shared mutable state (the datasets, log.txt), and under    *)
(* every interleaving each call returns what it returns when run alone.     *)
C27_ConcurrentCallsShareNothing ==
    [][/\ df' = df
       /\ aux' = aux
       /\ log_txt' = log_txt
       /\ ReturnsAsAlone']_vars

(* the count profile of the sensitive values, missing included, in the      *)
(* class of row i                                                           *)
ClassProfile(i, qi_cols, sensitive_col) ==
    _safe_entropy(value_counts(df, {j \in DOMAIN df : SameClass(i, j, qi_cols)},
                               sensitive_col))

(* C28: l_diversity with method 'entropy' takes entropy_min and entropy_avg *)
(* over the same equivalence classes as l_min and l_avg, the classes whose  *)
(* QI tuple has a missing value included: the average is over as many       *)
(* entropies as there are classes, and the entropy of every class is among  *)
(* them and at least entropy_min.                                           *)
C28_EntropyOverEveryClass ==
    (IsCall("l_diversity") /\ result.status = "ok" /\ result.args.method = "entropy"
        /\ Len(df) > 0)
    => LET qi_cols == result.args.qi
           s == result.args.sensitive
           bag == result.value.entropy_avg.mean_bits
           classes == {Key(df[i], qi_cols) : i \in DOMAIN df}
       IN  /\ SumFn(bag, DOMAIN bag) = Cardinality(classes)
           /\ \A i \in DOMAIN df :
                /\ ClassProfile(i, qi_cols, s) \in DOMAIN bag
                /\ EntropyLeq(result.value.entropy_min.bits, ClassProfile(i, qi_cols, s))

(* the distance the call computed for the classes: "emd" (Wasserstein),     *)
(* "tvd" (total variation, on histograms or on categories) or "zero" (the   *)
(* constant 0.0 of a numeric column without values)                         *)
DistanceUsed(a) ==
    LET kind == dist_func(df, a.sensitive, a.numeric_bins, a.binning_method, a.t_method).kind
    IN  IF kind \in {"cat", "hist"} THEN "tvd" ELSE kind

(* C29: the method recorded in a t-closeness report is the distance that    *)
(* was used for the classes: it is 'emd' only when the Wasserstein distance *)
(* was computed, and for a categorical sensitive attribute, whose distances *)
(* are total variation distances whatever t_method was asked for, it is     *)
(* 'tvd'.                                                                   *)
C29_RecordedMethodIsDistanceUsed ==
    (IsCall("t_closeness") /\ result.status = "ok")
    => /\ (result.value.method = "emd" => DistanceUsed(result.args) = "emd")
       /\ (~is_numeric_dtype(result.args.sensitive)
            => /\ DistanceUsed(result.args) = "tvd"
               /\ (result.args.t_method \in {"tvd", "emd"} => result.value.method = "tvd"))

(* C30: qi_sensitive_correlation holds a Pearson entry only for a numeric   *)
(* QI with a numeric sensitive column and only when |r| > 0.5, and a        *)
(* Cramer's V entry only for a categorical QI with a categorical sensitive  *)
(* column and only when V > 0.2; a pair of mixed types (numeric with        *)
(* categorical, either way) has no entry.                                   *)
C30_CorrelationEntriesByType ==
    IsReport =>
        LET found == result.value.behaviour_patterns.qi_sensitive_correlation
        IN  \A e \in DOMAIN found :
              /\ is_numeric_dtype(found[e].qi) = is_numeric_dtype(found[e].sensitive)
              /\ ("correlation" \in DOMAIN found[e]
                    => /\ is_numeric_dtype(found[e].qi)
                       /\ is_numeric_dtype(found[e].sensitive)
                       /\ Gt(found[e].correlation.sq, Some(1, 4)))
              /\ ("association_cramers_v" \in DOMAIN found[e]
                    => /\ ~is_numeric_dtype(found[e].qi)
                       /\ ~is_numeric_dtype(found[e].sensitive)
                       /\ Gt(found[e].association_cramers_v.sqrt, Some(4, 100)))

====
